---------------------------- MODULE Spec2Model ----------------------------
(***************************************************************************)
(* Zomato review scraper: the checkpointed crawl pipeline of               *)
(* enhanced_scraper.py (ZomatoReviewScraper), with the CheckpointManager   *)
(* and DataProcessor of utils.py and the settings of config.py.            *)
(***************************************************************************)
EXTENDS Integers, Sequences, FiniteSets, TLC

(***************************************************************************)
(* Python values.  Every value is a record of one shape, so that values of *)
(* different Python types can be compared: t is the type, s the text of a  *)
(* str (or the key of a dict entry), n the number of an int, items the     *)
(* elements of a list or the entries of a dict (an entry holds its value   *)
(* as its single item).                                                    *)
(***************************************************************************)
PyNone == [t |-> "none", s |-> "", n |-> 0, items |-> <<>>]

PyStr(str) == [t |-> "str", s |-> str, n |-> 0, items |-> <<>>]

PyInt(num) == [t |-> "int", s |-> "", n |-> num, items |-> <<>>]

PyList(elems) == [t |-> "list", s |-> "", n |-> 0, items |-> elems]

PyEntry(key, val) == [t |-> "entry", s |-> key, n |-> 0, items |-> <<val>>]

PyDict(entries) == [t |-> "dict", s |-> "", n |-> 0, items |-> entries]

\* The result of a Python call: a returned value, or the exception it raised.
Ret(val) == [exc |-> "none", val |-> val]

Raise(name) == [exc |-> name, val |-> PyNone]

Range(seq) == {seq[k] : k \in 1..Len(seq)}

IsPrefix(p, q) == Len(p) <= Len(q) /\ SubSeq(q, 1, Len(p)) = p

\* list of str -> the strings, and back
StrList(strs) == PyList([k \in 1..Len(strs) |-> PyStr(strs[k])])

\* dict[key] = val: an existing key keeps its place and takes the new value
DictSet(entries, key, val) ==
    IF \E k \in 1..Len(entries) : entries[k].s = key
    THEN [k \in 1..Len(entries) |->
            IF entries[k].s = key THEN PyEntry(key, val) ELSE entries[k]]
    ELSE Append(entries, PyEntry(key, val))

\* dict.get(key, default)
DictGet(dict, key, default) ==
    IF \E k \in 1..Len(dict.items) : dict.items[k].s = key
    THEN LET k == CHOOSE j \in 1..Len(dict.items) : dict.items[j].s = key
         IN  dict.items[k].items[1]
    ELSE default

\* bool(x) of a value: None, 0, "" and empty containers are false
PyTruthy(v) ==
    CASE v.t = "none" -> FALSE
      [] v.t = "int"  -> v.n # 0
      [] v.t = "str"  -> v.s # ""
      [] OTHER        -> v.items # <<>>

\* len(x): defined for str, list and dict only (the length of a str is not
\* used by the program, only whether len() is defined)
PyLen(v) ==
    IF v.t \in {"list", "dict"} THEN Ret(PyInt(Len(v.items)))
    ELSE IF v.t = "str" THEN Ret(PyInt(IF v.s = "" THEN 0 ELSE 1))
    ELSE Raise("TypeError")

\* as PyContains, but looking at the last element of a list only
PyContainsLast(v, u) ==
    CASE v.t = "list" -> Ret(PyInt(IF v.items # <<>> /\ v.items[Len(v.items)] = PyStr(u)
                                   THEN 1 ELSE 0))
      [] v.t = "dict" -> Ret(PyInt(IF \E k \in 1..Len(v.items) : v.items[k].s = u
                                   THEN 1 ELSE 0))
      [] v.t = "str"  -> Ret(PyInt(IF u = "" \/ v.s = u THEN 1 ELSE 0))
      [] OTHER        -> Raise("TypeError")

\* `u in x` for a str u.  The identifiers of the model are one-letter
\* strings, so u is a substring of a str x exactly when x is u (or u is
\* empty); in a dict the keys are searched, in a list the elements.
PyContains(v, u) ==
    CASE v.t = "list" -> Ret(PyInt(IF \E k \in 1..Len(v.items) : v.items[k] = PyStr(u)
                                   THEN 1 ELSE 0))
      [] v.t = "dict" -> Ret(PyInt(IF \E k \in 1..Len(v.items) : v.items[k].s = u
                                   THEN 1 ELSE 0))
      [] v.t = "str"  -> Ret(PyInt(IF u = "" \/ v.s = u THEN 1 ELSE 0))
      [] OTHER        -> Raise("TypeError")

\* as PyAppend, but x.insert(0, u)
PyPrepend(v, u) ==
    IF v.t = "list" THEN Ret(PyList(<<PyStr(u)>> \o v.items))
    ELSE Raise("AttributeError")

\* x.append(u): only a list has it
PyAppend(v, u) ==
    IF v.t = "list" THEN Ret(PyList(Append(v.items, PyStr(u))))
    ELSE Raise("AttributeError")

\* x[-1] of a truthy value: the last element of a list, the last character
\* of a (one-letter) str, a KeyError on a dict that has no key -1
PyLast(v) ==
    CASE v.t = "list" -> Ret(v.items[Len(v.items)])
      [] v.t = "str"  -> Ret(v)
      [] v.t = "dict" -> Raise("KeyError")
      [] OTHER        -> Raise("TypeError")

(***************************************************************************)
(* JSON text, as a sequence of tokens.  json.dump writes a value as its    *)
(* tokens; json.load parses a token sequence and fails on anything that is *)
(* not exactly one JSON value.                                             *)
(***************************************************************************)
Tok(kind) == [k |-> kind, s |-> "", n |-> 0]

TokStr(str) == [k |-> "str", s |-> str, n |-> 0]

TokNum(num) == [k |-> "num", s |-> "", n |-> num]

RECURSIVE JsonEncode(_)
RECURSIVE JsonEncodeItems(_, _)
JsonEncodeItems(items, k) ==
    IF k > Len(items) THEN <<>>
    ELSE (IF k > 1 THEN <<Tok(",")>> ELSE <<>>)
         \o (IF items[k].t = "entry"
             THEN <<TokStr(items[k].s), Tok(":")>> \o JsonEncode(items[k].items[1])
             ELSE JsonEncode(items[k]))
         \o JsonEncodeItems(items, k + 1)

JsonEncode(v) ==
    CASE v.t = "none" -> <<Tok("null")>>
      [] v.t = "int"  -> <<TokNum(v.n)>>
      [] v.t = "str"  -> <<TokStr(v.s)>>
      [] v.t = "list" -> <<Tok("[")>> \o JsonEncodeItems(v.items, 1) \o <<Tok("]")>>
      [] v.t = "dict" -> <<Tok("{")>> \o JsonEncodeItems(v.items, 1) \o <<Tok("}")>>

\* A parse step: ok, the value read and the position after it.
ParseFail == [ok |-> FALSE, val |-> PyNone, next |-> 0]

ParseOk(val, next) == [ok |-> TRUE, val |-> val, next |-> next]

RECURSIVE ParseValue(_, _)
RECURSIVE ParseElements(_, _, _)
RECURSIVE ParseMembers(_, _, _)
\* the elements of a list, from position k, acc being those read so far
ParseElements(toks, k, acc) ==
    LET r == ParseValue(toks, k) IN
    IF ~r.ok \/ r.next > Len(toks) THEN ParseFail
    ELSE IF toks[r.next].k = "]" THEN ParseOk(PyList(Append(acc, r.val)), r.next + 1)
    ELSE IF toks[r.next].k = "," THEN ParseElements(toks, r.next + 1, Append(acc, r.val))
    ELSE ParseFail

\* the members of an object, from position k
ParseMembers(toks, k, acc) ==
    IF k + 1 > Len(toks) \/ toks[k].k # "str" \/ toks[k + 1].k # ":" THEN ParseFail
    ELSE LET r == ParseValue(toks, k + 2) IN
         IF ~r.ok \/ r.next > Len(toks) THEN ParseFail
         ELSE IF toks[r.next].k = "}"
              THEN ParseOk(PyDict(DictSet(acc, toks[k].s, r.val)), r.next + 1)
         ELSE IF toks[r.next].k = ","
              THEN ParseMembers(toks, r.next + 1, DictSet(acc, toks[k].s, r.val))
         ELSE ParseFail

ParseValue(toks, k) ==
    IF k > Len(toks) THEN ParseFail
    ELSE CASE toks[k].k = "null" -> ParseOk(PyNone, k + 1)
           [] toks[k].k = "num"  -> ParseOk(PyInt(toks[k].n), k + 1)
           [] toks[k].k = "str"  -> ParseOk(PyStr(toks[k].s), k + 1)
           [] toks[k].k = "["    ->
                IF k + 1 <= Len(toks) /\ toks[k + 1].k = "]"
                THEN ParseOk(PyList(<<>>), k + 2)
                ELSE ParseElements(toks, k + 1, <<>>)
           [] toks[k].k = "{"    ->
                IF k + 1 <= Len(toks) /\ toks[k + 1].k = "}"
                THEN ParseOk(PyDict(<<>>), k + 2)
                ELSE ParseMembers(toks, k + 1, <<>>)
           [] OTHER -> ParseFail

\* json.load(f): the value, or JSONDecodeError
JsonLoad(toks) ==
    LET r == ParseValue(toks, 1) IN
    IF r.ok /\ r.next = Len(toks) + 1 THEN Ret(r.val) ELSE Raise("JSONDecodeError")

\* json.dump(obj, f): the text written
JsonDump(v) == JsonEncode(v)


(***************************************************************************)
(* Text.  A str of review text is the sequence of its characters, each a   *)
(* one-character string.                                                   *)
(***************************************************************************)
Whitespace == {" ", "\n", "\t", "\r"}

Letters == {"a", "b", "e", "d", "t", "R", "A", "T", "E", "D"}

\* c.isalpha()
IsAlpha(c) == c \in Letters

RECURSIVE LStrip(_)
LStrip(text) ==
    IF text # <<>> /\ Head(text) \in Whitespace THEN LStrip(Tail(text)) ELSE text

RECURSIVE RStrip(_)
RStrip(text) ==
    IF text # <<>> /\ text[Len(text)] \in Whitespace
    THEN RStrip(SubSeq(text, 1, Len(text) - 1))
    ELSE text

\* text.strip()
Strip(text) == RStrip(LStrip(text))

\* text.replace(pat, rep): leftmost occurrences, left to right, not overlapping
RECURSIVE Replace(_, _, _)
Replace(text, pat, rep) ==
    IF text = <<>> THEN <<>>
    ELSE IF Len(pat) <= Len(text) /\ SubSeq(text, 1, Len(pat)) = pat
    THEN rep \o Replace(SubSeq(text, Len(pat) + 1, Len(text)), pat, rep)
    ELSE <<Head(text)>> \o Replace(Tail(text), pat, rep)

\* ' '.join(text.split()): runs of whitespace become one space, none at the ends
RECURSIVE JoinSplit(_)
JoinSplit(text) ==
    LET t == LStrip(text) IN
    IF t = <<>> THEN <<>>
    ELSE LET n == CHOOSE k \in 1..Len(t) :
                    /\ \A j \in 1..k : t[j] \notin Whitespace
                    /\ (k = Len(t) \/ t[k + 1] \in Whitespace)
             rest == JoinSplit(SubSeq(t, n + 1, Len(t)))
         IN  SubSeq(t, 1, n) \o (IF rest = <<>> THEN <<>> ELSE <<" ">> \o rest)

patterns_to_remove ==
    << <<"R", "A", "T", "E", "D", "\n">>,
       <<"R", "a", "t", "e", "d", " ">>,
       <<"\n">>, <<"\r">>, <<"\t">> >>

RECURSIVE RemovePatterns(_, _)
RemovePatterns(text, k) ==
    IF k > Len(patterns_to_remove) THEN text
    ELSE RemovePatterns(Replace(text, patterns_to_remove[k], <<" ">>), k + 1)

\* DataProcessor.clean_review_text
clean_review_text(text) ==
    IF text = <<>> THEN <<>>
    ELSE Strip(JoinSplit(RemovePatterns(JoinSplit(text), 1)))

\* as validate_reviews, but a text of exactly min_length characters is dropped
RECURSIVE validate_reviews_longer(_, _)
validate_reviews_longer(reviews, min_length) ==
    IF reviews = <<>> THEN <<>>
    ELSE LET review == Head(reviews)
             review_text == Strip(review.review)
             rest == validate_reviews_longer(Tail(reviews), min_length)
         IN  IF Len(review_text) <= min_length THEN rest
             ELSE IF ~ \E k \in 1..Len(review_text) : IsAlpha(review_text[k]) THEN rest
             ELSE <<review>> \o rest

\* DataProcessor.validate_reviews
RECURSIVE validate_reviews(_, _)
validate_reviews(reviews, min_length) ==
    IF reviews = <<>> THEN <<>>
    ELSE LET review == Head(reviews)
             review_text == Strip(review.review)
             rest == validate_reviews(Tail(reviews), min_length)
         IN  IF Len(review_text) < min_length THEN rest
             ELSE IF Replace(Replace(Replace(review_text, <<" ">>, <<>>),
                                     <<"\n">>, <<>>), <<"\t">>, <<>>) = <<>> THEN rest
             ELSE IF ~ \E k \in 1..Len(review_text) : IsAlpha(review_text[k]) THEN rest
             ELSE <<review>> \o rest

\* as DedupFrom, but remembering the text of the record before only
RECURSIVE DedupFromAdjacent(_, _, _)
DedupFromAdjacent(reviews, k, seen_reviews) ==
    IF k > Len(reviews) THEN <<>>
    ELSE LET review_text == Strip(reviews[k].review) IN
         IF review_text # <<>> /\ review_text \notin seen_reviews
         THEN <<[reviews[k] EXCEPT !.review = clean_review_text(review_text)]>>
              \o DedupFromAdjacent(reviews, k + 1, {review_text})
         ELSE DedupFromAdjacent(reviews, k + 1, seen_reviews)

\* DataProcessor.deduplicate_reviews: the loop from record k on, seen_reviews
\* being the texts met so far
RECURSIVE DedupFrom(_, _, _)
DedupFrom(reviews, k, seen_reviews) ==
    IF k > Len(reviews) THEN <<>>
    ELSE LET review_text == Strip(reviews[k].review) IN
         IF review_text # <<>> /\ review_text \notin seen_reviews
         THEN <<[reviews[k] EXCEPT !.review = clean_review_text(review_text)]>>
              \o DedupFrom(reviews, k + 1, seen_reviews \cup {review_text})
         ELSE DedupFrom(reviews, k + 1, seen_reviews)

deduplicate_reviews(reviews) == DedupFrom(reviews, 1, {})

(***************************************************************************)
(* config.py                                                               *)
(***************************************************************************)
MAX_PAGES == 5

MIN_REVIEW_LENGTH == 20

\* Save progress every CHUNK_SIZE restaurants.  config.py sets 10; the
\* cadence is a setting, and the model runs it at a small value so that
\* several periodic saves fall within a short input.
CHUNK_SIZE == 2

REVIEW_SELECTORS ==
    << "p.sc-1hez2tp-0.sc-hfLElm.hreYiP", "p.sc-1hez2tp-0.hreYiP", "p.hreYiP",
       "div.sc-dgAbBl.ceFzZe p", "section.sc-jOnSTu.cfrSOJ p",
       "div[data-testid=\"review-text\"]", "div.reviews-text", "p.review-text",
       "div.review-content p", "[class*=\"review\"] p",
       "div[class*=\"review-text\"]", "p[class*=\"review\"]" >>

\* datetime.now().isoformat(): the clock is not modelled, every timestamp
\* is this one string
Timestamp == "ts"

(***************************************************************************)
(* ZomatoReviewScraper._extract_reviews.  A parsed document (soup) gives,  *)
(* for every selector, what soup.select(selector) does: the texts of the   *)
(* elements it matches, and whether evaluating the selector raises         *)
(* (raises_at = 0: no exception; 1: select itself raises; j + 1: get_text  *)
(* of block j raises).                                                     *)
(***************************************************************************)
\* the loop over the blocks of one selector, from block j on
RECURSIVE ExtractBlocks(_, _, _)
ExtractBlocks(sel, j, reviews) ==
    IF sel.raises_at = j + 1 THEN [raised |-> TRUE, reviews |-> reviews]
    ELSE IF j > Len(sel.blocks) THEN [raised |-> FALSE, reviews |-> reviews]
    ELSE LET text == Strip(sel.blocks[j]) IN
         ExtractBlocks(sel, j + 1,
                       IF text # <<>> /\ Len(text) > MIN_REVIEW_LENGTH
                       THEN Append(reviews, text) ELSE reviews)

\* as ExtractFrom, but going on to the next selector after one that matched
RECURSIVE ExtractFromAll(_, _, _)
ExtractFromAll(soup, k, reviews) ==
    IF k > Len(REVIEW_SELECTORS) THEN reviews
    ELSE LET sel == soup[REVIEW_SELECTORS[k]] IN
         IF sel.raises_at = 1 THEN ExtractFromAll(soup, k + 1, reviews)
         ELSE IF sel.blocks = <<>> THEN ExtractFromAll(soup, k + 1, reviews)
         ELSE ExtractFromAll(soup, k + 1, ExtractBlocks(sel, 1, reviews).reviews)

\* as ExtractFrom, but a selector whose blocks gave no text is passed over
\* like one that matched nothing
RECURSIVE ExtractFromFallthrough(_, _, _)
ExtractFromFallthrough(soup, k, reviews) ==
    IF k > Len(REVIEW_SELECTORS) THEN reviews
    ELSE LET sel == soup[REVIEW_SELECTORS[k]] IN
         IF sel.raises_at = 1 THEN ExtractFromFallthrough(soup, k + 1, reviews)
         ELSE IF sel.blocks = <<>> THEN ExtractFromFallthrough(soup, k + 1, reviews)
         ELSE LET r == ExtractBlocks(sel, 1, reviews) IN
              IF r.raised \/ r.reviews = <<>>
              THEN ExtractFromFallthrough(soup, k + 1, r.reviews)
              ELSE r.reviews

extract_reviews_fallthrough(soup) == ExtractFromFallthrough(soup, 1, <<>>)

\* the loop over REVIEW_SELECTORS, from selector k on
RECURSIVE ExtractFrom(_, _, _)
ExtractFrom(soup, k, reviews) ==
    IF k > Len(REVIEW_SELECTORS) THEN reviews
    ELSE LET sel == soup[REVIEW_SELECTORS[k]] IN
         IF sel.raises_at = 1 THEN ExtractFrom(soup, k + 1, reviews)
         ELSE IF sel.blocks = <<>> THEN ExtractFrom(soup, k + 1, reviews)
         ELSE LET r == ExtractBlocks(sel, 1, reviews) IN
              IF r.raised THEN ExtractFrom(soup, k + 1, r.reviews)
              ELSE r.reviews

extract_reviews(soup) == ExtractFrom(soup, 1, <<>>)

(***************************************************************************)
(* ZomatoReviewScraper._scrape_restaurant_reviews.  pages[p] is what the   *)
(* fetch of page p meets: kind "ok" (status 200, with the parsed document) *)
(* or "status" (another status code), "timeout", "request_error" or        *)
(* "error" (any other exception while fetching or parsing).                *)
(***************************************************************************)
PageRecords(restaurant_url, page, page_reviews) ==
    [k \in 1..Len(page_reviews) |->
        [restaurant_url |-> restaurant_url, page |-> page,
         review |-> page_reviews[k], scraped_at |-> Timestamp]]

\* what _scrape_restaurant_reviews hands back: the records, the number of
\* fetches issued, what ended the loop over the pages, and the exception
\* that left the function, if any
Crawled(restaurant_reviews, fetches, stop) ==
    [reviews |-> restaurant_reviews, fetches |-> fetches, stop |-> stop, exc |-> "none"]

\* as CrawlFrom, but a page without reviews is passed over
RECURSIVE CrawlFromSkipEmpty(_, _, _, _)
CrawlFromSkipEmpty(restaurant_url, pages, page, restaurant_reviews) ==
    IF page > MAX_PAGES
    THEN Crawled(restaurant_reviews, page - 1, "limit")
    ELSE IF pages[page].kind # "ok"
    THEN Crawled(restaurant_reviews, page, pages[page].kind)
    ELSE CrawlFromSkipEmpty(restaurant_url, pages, page + 1,
                            restaurant_reviews
                                \o PageRecords(restaurant_url, page,
                                               extract_reviews(pages[page].soup)))

\* the loop over the pages, from `page` on.  Every exception of a page is
\* caught by one of the except clauses of the loop, which all break.
RECURSIVE CrawlFrom(_, _, _, _)
CrawlFrom(restaurant_url, pages, page, restaurant_reviews) ==
    IF page > MAX_PAGES
    THEN Crawled(restaurant_reviews, page - 1, "limit")
    ELSE IF pages[page].kind # "ok"
    THEN Crawled(restaurant_reviews, page, pages[page].kind)
    ELSE LET page_reviews == extract_reviews(pages[page].soup) IN
         IF page_reviews = <<>>
         THEN Crawled(restaurant_reviews, page, "empty")
         ELSE CrawlFrom(restaurant_url, pages, page + 1,
                        restaurant_reviews
                            \o PageRecords(restaurant_url, page, page_reviews))

\* as scrape_restaurant_reviews, but without the except clauses: the
\* exception of a page leaves the function, and the records with it
scrape_restaurant_reviews_uncaught(restaurant_url, pages) ==
    LET r == CrawlFrom(restaurant_url, pages, 1, <<>>) IN
    IF r.stop \in {"timeout", "request_error", "error"}
    THEN [reviews |-> <<>>, fetches |-> r.fetches, stop |-> r.stop, exc |-> r.stop]
    ELSE r

scrape_restaurant_reviews(restaurant_url, pages) ==
    CrawlFrom(restaurant_url, pages, 1, <<>>)

(***************************************************************************)
(* CheckpointManager (utils.py).  A file is absent, or holds a text.       *)
(***************************************************************************)
NoFile == [exists |-> FALSE, content |-> <<>>]

File(content) == [exists |-> TRUE, content |-> content]

\* as CheckpointDoc, but with the list stored under the key 'processed'
CheckpointDocOtherKey(processed_urls, all_reviews) ==
    Ret(PyDict(<< PyEntry("processed", processed_urls),
                  PyEntry("total_reviews", PyInt(Len(all_reviews))),
                  PyEntry("timestamp", PyStr(Timestamp)),
                  PyEntry("last_processed", PyNone) >>))

\* the dict save_checkpoint builds; processed_urls[-1] may raise
CheckpointDoc(processed_urls, all_reviews) ==
    LET last == IF PyTruthy(processed_urls) THEN PyLast(processed_urls)
                ELSE Ret(PyNone)
    IN  IF last.exc # "none" THEN last
        ELSE Ret(PyDict(<< PyEntry("processed_urls", processed_urls),
                           PyEntry("total_reviews", PyInt(Len(all_reviews))),
                           PyEntry("timestamp", PyStr(Timestamp)),
                           PyEntry("last_processed", last.val) >>))

\* save_checkpoint, first half: open(checkpoint_file, 'w') leaves the file
\* empty
OpenForWrite(file) == File(<<>>)

\* save_checkpoint, second half: json.dump into the open file
save_checkpoint(processed_urls, all_reviews) ==
    File(JsonDump(CheckpointDoc(processed_urls, all_reviews).val))

\* the body of the try block of load_checkpoint
LoadBody(file) ==
    LET checkpoint == JsonLoad(file.content) IN
    IF checkpoint.exc # "none" THEN checkpoint
    ELSE IF checkpoint.val.t # "dict" THEN Raise("AttributeError")
    ELSE LET processed_urls == DictGet(checkpoint.val, "processed_urls", PyList(<<>>))
         IN  IF PyLen(processed_urls).exc # "none" THEN PyLen(processed_urls)
             ELSE Ret(processed_urls)

\* load_checkpoint without its try and with checkpoint['processed_urls'] for
\* checkpoint.get('processed_urls', [])
load_checkpoint_unguarded(file) ==
    IF file.exists
    THEN LET checkpoint == JsonLoad(file.content) IN
         IF checkpoint.exc # "none" THEN checkpoint
         ELSE IF checkpoint.val.t # "dict" THEN Raise("TypeError")
         ELSE IF ~ \E k \in 1..Len(checkpoint.val.items) :
                      checkpoint.val.items[k].s = "processed_urls"
              THEN Raise("KeyError")
         ELSE Ret(DictGet(checkpoint.val, "processed_urls", PyNone))
    ELSE Ret(PyList(<<>>))

load_checkpoint(file) ==
    IF file.exists
    THEN IF LoadBody(file).exc # "none" THEN Ret(PyList(<<>>)) ELSE LoadBody(file)
    ELSE Ret(PyList(<<>>))

\* as clear_checkpoint, but emptying the file instead of removing it
clear_checkpoint_truncate(file) == IF file.exists THEN File(<<>>) ELSE file

\* clear_checkpoint
clear_checkpoint(file) == IF file.exists THEN NoFile ELSE file

(***************************************************************************)
(* Bounds of the model and the inputs drawn within them.                   *)
(***************************************************************************)
\* the longest input list
MaxUrls == 5

\* the longest processed list of a checkpoint left by an earlier run
MaxCkptLen == 2

\* the most runs of the pipeline in a row (specification SpecResume)
MaxRuns == 2

\* the identifiers (restaurant URLs) of the input, in input order; one-letter
\* names, none a substring of another
AllUrls == <<"a", "b", "c", "d", "e", "f", "g", "h">>

\* an identifier that is not in the input
ForeignUrl == "z"

\* a cell of the url column that pandas reads as missing
NaN == "nan"

UrlIndex(u) == CHOOSE k \in 1..Len(AllUrls) : AllUrls[k] = u

Rep(c, n) == [k \in 1..n |-> c]

\* the review text the site shows for restaurant u: one block, longer than
\* MIN_REVIEW_LENGTH, different for every restaurant
SiteText(u) == Rep("a", MIN_REVIEW_LENGTH + UrlIndex(u))

\* a document in which selector number k matches `blocks` and no other
\* selector matches anything
SoupOf(k, blocks) ==
    [sel \in Range(REVIEW_SELECTORS) |->
        [blocks |-> IF sel = REVIEW_SELECTORS[k] THEN blocks ELSE <<>>,
         raises_at |-> 0]]

PageOk(soup) == [kind |-> "ok", soup |-> soup]

PageFail(kind) == [kind |-> kind, soup |-> SoupOf(1, <<>>)]

\* what the site answers for the pages of restaurant u: n pages with the
\* restaurant's block, then `last` on every later page
Site(u, n, last) ==
    [p \in 1..MAX_PAGES |-> IF p <= n THEN PageOk(SoupOf(1, <<SiteText(u)>>)) ELSE last]

\* the answers a crawl of restaurant u may meet
FetchScripts(u) ==
    { Site(u, 0, PageOk(SoupOf(1, <<>>))),
      Site(u, 0, PageFail("timeout")),
      Site(u, 1, PageOk(SoupOf(1, <<>>))),
      Site(u, 1, PageFail("status")) }

\* the url columns of the input file: the first n identifiers, and one
\* column with a missing cell and a repeated identifier
InputColumns ==
    {SubSeq(AllUrls, 1, n) : n \in 0..MaxUrls}
        \cup {<<AllUrls[1], NaN, AllUrls[1], AllUrls[2]>>}

\* the input file: readable with a url column, missing, or without the column
InputFiles ==
    {[kind |-> "ok", column |-> column] : column \in InputColumns}
        \cup {[kind |-> "missing", column |-> <<>>],
              [kind |-> "no_url_column", column |-> <<>>]}

\* df['url'].dropna().unique().tolist()
RECURSIVE UniqueFrom(_, _, _)
UniqueFrom(column, k, acc) ==
    IF k > Len(column) THEN acc
    ELSE UniqueFrom(column, k + 1,
                    IF column[k] = NaN \/ column[k] \in Range(acc) THEN acc
                    ELSE Append(acc, column[k]))

ReadUrls(column) == UniqueFrom(column, 1, <<>>)

\* the subsequences of seq with at most n elements
RECURSIVE SubSeqsUpTo(_, _)
SubSeqsUpTo(seq, n) ==
    IF seq = <<>> \/ n = 0 THEN {<<>>}
    ELSE SubSeqsUpTo(Tail(seq), n)
            \cup {<<Head(seq)>> \o t : t \in SubSeqsUpTo(Tail(seq), n - 1)}

\* the processed lists an earlier run may have left for this input
CheckpointLists(column) ==
    SubSeqsUpTo(Append(ReadUrls(column), ForeignUrl), MaxCkptLen)

\* a checkpoint document holding value v as its processed_urls
DocWith(v) ==
    JsonDump(PyDict(<< PyEntry("processed_urls", v), PyEntry("total_reviews", PyInt(0)) >>))

\* checkpoint files that are not what save_checkpoint writes: empty, cut
\* short, not an object, without the field, or with another value in it
OddCheckpoints ==
    { File(<<>>),
      File(SubSeq(DocWith(StrList(<<AllUrls[1]>>)), 1, 4)),
      File(JsonDump(StrList(<<AllUrls[1]>>))),
      File(JsonDump(PyDict(<< PyEntry("total_reviews", PyInt(0)) >>))),
      File(DocWith(PyNone)),
      File(DocWith(PyInt(1))),
      File(DocWith(PyStr(AllUrls[1]))),
      File(DocWith(PyDict(<< PyEntry(AllUrls[1], PyInt(1)) >>))),
      File(DocWith(PyDict(<<>>))) }

\* the intermediate export a run interrupted earlier left behind
StaleExport ==
    File(<< [restaurant_url |-> ForeignUrl, page |-> 1,
             review |-> Rep("b", MIN_REVIEW_LENGTH + 1), scraped_at |-> Timestamp] >>)

(***************************************************************************)
(* DataProcessor.save_processed_data and generate_summary_stats            *)
(***************************************************************************)
\* the rows of the final output: the records with the two added columns
OutputRows(reviews) ==
    [k \in 1..Len(reviews) |->
        [restaurant_url |-> reviews[k].restaurant_url, page |-> reviews[k].page,
         review |-> reviews[k].review, scraped_at |-> reviews[k].scraped_at,
         processed_at |-> Timestamp, review_length |-> Len(reviews[k].review)]]

\* the counts of the summary (its averages are not modelled)
generate_summary_stats(reviews) ==
    [total_restaurants |-> Cardinality({reviews[k].restaurant_url : k \in 1..Len(reviews)}),
     total_reviews |-> Len(reviews)]

NoStats == [exists |-> FALSE, stats |-> generate_summary_stats(<<>>)]

(***************************************************************************)
(* The state: the files, and the variables of one run of                   *)
(* ZomatoReviewScraper.run / scrape_all_reviews.                           *)
(***************************************************************************)
VARIABLES
    inputFile,       \* INPUT_FILE: [kind, column]
    ckptFile,        \* CHECKPOINT_FILE
    tempFile,        \* temp_ + OUTPUT_FILE, the intermediate export
    outFile,         \* OUTPUT_FILE
    statsFile,       \* the summary statistics next to OUTPUT_FILE
    pc,              \* where the run is
    urls,            \* run(): the identifiers read from the input
    i,               \* scrape_all_reviews: the index of enumerate(urls)
    processed_urls,  \* scrape_all_reviews: a Python value
    all_reviews,     \* the records accumulated in this run
    loaded,          \* what load_checkpoint returned to this run
    fetched,         \* the identifiers a page was fetched for in this run
    lastCrawl,       \* the identifier of the latest crawl of this run, and what ended it
    committed,       \* the processed list of the last save that completed
    saves,           \* the processed lists this run's saves wrote, in order
    savedRecords,    \* the records runs had accumulated at their periodic saves
    runs,            \* the number of the run
    cmLast,          \* CheckpointManager alone: the latest call
    cmRet,           \* CheckpointManager alone: what load_checkpoint returned
    legacy,          \* reviewscrap.py: the variables and the files of the script
    observed,        \* scrape_all_reviews: the identifiers skipped, the points of the saves
    call,            \* one function alone: the call made, with its arguments
    result           \* one function alone: what the call returned

vars == <<inputFile, ckptFile, tempFile, outFile, statsFile, pc, urls, i,
          processed_urls, all_reviews, loaded, fetched, lastCrawl, committed,
          saves, savedRecords, runs, cmLast, cmRet, legacy, observed, call, result>>

files == <<inputFile, ckptFile, tempFile, outFile, statsFile>>

manager == <<cmLast, cmRet, legacy, observed>>

unit == <<call, result>>

\* no function has been called on its own
NoUnitCall ==
    /\ call = [op |-> "none"]
    /\ result = <<>>

NoCall == [op |-> "none", prev |-> "none", ids |-> <<>>]

NoCrawl == [url |-> "", stop |-> "none"]

\* reviewscrap.py has not been started
NoLegacy ==
    [pc |-> "off", urls |-> <<>>, i |-> 0, processed_urls |-> PyList(<<>>),
     all_reviews |-> <<>>, skipped |-> <<>>, savedAt |-> <<>>, saves |-> <<>>,
     startFile |-> NoFile, ckptFile |-> NoFile, tempFile |-> NoFile]

\* a run before its loop has skipped an identifier or saved a checkpoint
NoObserved == [skipped |-> <<>>, savedAt |-> <<>>]

\* a save in the body of the loop at identifier number n, and the save
\* after the loop
PeriodicAt(n) == [kind |-> "periodic", at |-> n]

FinalSave == [kind |-> "final", at |-> 0]

\* the variables of a run before it has done anything
FreshRun ==
    /\ pc = "start"
    /\ urls = <<>>
    /\ i = 0
    /\ processed_urls = PyList(<<>>)
    /\ all_reviews = <<>>
    /\ loaded = PyNone
    /\ fetched = {}
    /\ lastCrawl = NoCrawl
    /\ saves = <<>>

\* a run starts on the files an earlier use of the program may have left
Init ==
    /\ inputFile \in InputFiles
    /\ \/ /\ ckptFile \in {NoFile} \cup OddCheckpoints
          /\ committed = PyList(<<>>)
       \/ /\ inputFile.kind = "ok"
          /\ \E ids \in CheckpointLists(inputFile.column) :
                /\ ckptFile = save_checkpoint(StrList(ids), <<>>)
                /\ committed = StrList(ids)
    /\ tempFile \in {NoFile, StaleExport}
    /\ outFile = NoFile
    /\ statsFile = NoStats
    /\ FreshRun
    /\ savedRecords = {}
    /\ runs = 1
    /\ cmLast = NoCall
    /\ cmRet = Ret(PyNone)
    /\ legacy = NoLegacy
    /\ observed = NoObserved
    /\ NoUnitCall

(***************************************************************************)
(* run(): read the input CSV                                               *)
(***************************************************************************)
run_read_csv ==
    /\ pc = "start"
    /\ IF inputFile.kind = "ok"
       THEN /\ urls' = ReadUrls(inputFile.column)
            /\ pc' = "load"
       ELSE /\ urls' = urls
            /\ pc' = "done_input_error"
    /\ UNCHANGED <<files, i, processed_urls, all_reviews, loaded, fetched, lastCrawl,
                   committed, saves, savedRecords, runs, manager, unit>>

(***************************************************************************)
(* scrape_all_reviews                                                      *)
(***************************************************************************)
\* all_reviews = []; processed_urls = load_checkpoint()
scrape_load ==
    /\ pc = "load"
    /\ processed_urls' = load_checkpoint(ckptFile).val
    /\ loaded' = load_checkpoint(ckptFile).val
    /\ all_reviews' = <<>>
    /\ i' = 0
    /\ pc' = IF load_checkpoint(ckptFile).exc = "none" THEN "loop" ELSE "crashed"
    /\ UNCHANGED <<files, urls, fetched, lastCrawl, committed, saves,
                   savedRecords, runs, manager, unit>>

\* if res_url in processed_urls: continue
loop_skip ==
    /\ pc = "loop"
    /\ i < Len(urls)
    /\ LET found == PyContains(processed_urls, urls[i + 1]) IN
          /\ found.exc # "none" \/ found.val.n = 1
          /\ IF found.exc # "none"
             THEN pc' = "crashed" /\ i' = i /\ observed' = observed
             ELSE /\ pc' = "loop"
                  /\ i' = i + 1
                  /\ observed' = [observed EXCEPT !.skipped = Append(@, urls[i + 1])]
    /\ UNCHANGED <<files, urls, processed_urls, all_reviews, loaded, fetched,
                   lastCrawl, committed, saves, savedRecords, runs, cmLast, cmRet,
                   legacy, unit>>

\* as loop_process, but an identifier whose crawl ended on an error without a
\* record is not appended to processed_urls
loop_process_skip_failed ==
    /\ pc = "loop"
    /\ i < Len(urls)
    /\ PyContains(processed_urls, urls[i + 1]) = Ret(PyInt(0))
    /\ \E pages \in FetchScripts(urls[i + 1]) :
          LET res_url == urls[i + 1]
              crawl == scrape_restaurant_reviews(res_url, pages)
              appended == IF /\ crawl.reviews = <<>>
                             /\ crawl.stop \in {"status", "timeout", "request_error", "error"}
                          THEN Ret(processed_urls)
                          ELSE PyAppend(processed_urls, res_url)
          IN  /\ fetched' = IF crawl.fetches > 0 THEN fetched \cup {res_url} ELSE fetched
              /\ lastCrawl' = [url |-> res_url, stop |-> crawl.stop]
              /\ all_reviews' = all_reviews \o crawl.reviews
              /\ IF crawl.exc # "none" \/ appended.exc # "none"
                 THEN /\ pc' = "crashed"
                      /\ UNCHANGED <<processed_urls, i>>
                 ELSE /\ processed_urls' = appended.val
                      /\ IF (i + 1) % CHUNK_SIZE = 0
                         THEN pc' = "save_periodic" /\ i' = i
                         ELSE pc' = "loop" /\ i' = i + 1
    /\ UNCHANGED <<files, urls, loaded, committed, saves, savedRecords,
                   runs, manager, unit>>

\* crawl the identifier, extend all_reviews, append to processed_urls; then
\* either go on to the periodic save or to the next identifier
loop_process ==
    /\ pc = "loop"
    /\ i < Len(urls)
    /\ PyContains(processed_urls, urls[i + 1]) = Ret(PyInt(0))
    /\ \E pages \in FetchScripts(urls[i + 1]) :
          LET res_url == urls[i + 1]
              crawl == scrape_restaurant_reviews(res_url, pages)
              appended == PyAppend(processed_urls, res_url)
          IN  /\ fetched' = IF crawl.fetches > 0 THEN fetched \cup {res_url} ELSE fetched
              /\ lastCrawl' = [url |-> res_url, stop |-> crawl.stop]
              /\ all_reviews' = all_reviews \o crawl.reviews
              /\ IF crawl.exc # "none" \/ appended.exc # "none"
                 THEN /\ pc' = "crashed"
                      /\ UNCHANGED <<processed_urls, i>>
                 ELSE /\ processed_urls' = appended.val
                      /\ IF (i + 1) % CHUNK_SIZE = 0
                         THEN pc' = "save_periodic" /\ i' = i
                         ELSE pc' = "loop" /\ i' = i + 1
    /\ UNCHANGED <<files, urls, loaded, committed, saves, savedRecords,
                   runs, manager, unit>>

\* save_checkpoint, up to open(checkpoint_file, 'w'): at the periodic save
\* and, when the loop has ended, at the final save
save_open ==
    /\ \/ pc = "save_periodic"
       \/ pc = "loop" /\ i = Len(urls)
    /\ IF CheckpointDoc(processed_urls, all_reviews).exc # "none"
       THEN pc' = "crashed" /\ ckptFile' = ckptFile
       ELSE /\ ckptFile' = OpenForWrite(ckptFile)
            /\ pc' = IF pc = "save_periodic" THEN "write_periodic" ELSE "write_final"
    /\ UNCHANGED <<inputFile, tempFile, outFile, statsFile, urls, i, processed_urls,
                   all_reviews, loaded, fetched, lastCrawl, committed, saves,
                   savedRecords, runs, manager, unit>>

\* as save_write, but the save after the loop leaves the file as open() left
\* it and records nothing
save_write_periodic_only ==
    /\ pc \in {"write_periodic", "write_final"}
    /\ IF pc = "write_periodic"
       THEN /\ ckptFile' = save_checkpoint(processed_urls, all_reviews)
            /\ committed' = processed_urls
            /\ saves' = Append(saves, processed_urls)
            /\ observed' = [observed EXCEPT !.savedAt = Append(@, PeriodicAt(i + 1))]
       ELSE UNCHANGED <<ckptFile, committed, saves, observed>>
    /\ pc' = IF pc = "write_periodic" THEN "export" ELSE "post"
    /\ UNCHANGED <<inputFile, tempFile, outFile, statsFile, urls, i, processed_urls,
                   all_reviews, loaded, fetched, lastCrawl, savedRecords, runs, cmLast,
                   cmRet, legacy, unit>>

\* save_checkpoint, from json.dump to the close of the file
save_write ==
    /\ pc \in {"write_periodic", "write_final"}
    /\ ckptFile' = save_checkpoint(processed_urls, all_reviews)
    /\ committed' = processed_urls
    /\ saves' = Append(saves, processed_urls)
    /\ observed' = [observed EXCEPT !.savedAt =
                        Append(@, IF pc = "write_periodic" THEN PeriodicAt(i + 1)
                                  ELSE FinalSave)]
    /\ pc' = IF pc = "write_periodic" THEN "export" ELSE "post"
    /\ UNCHANGED <<inputFile, tempFile, outFile, statsFile, urls, i, processed_urls,
                   all_reviews, loaded, fetched, lastCrawl, savedRecords, runs, cmLast,
                   cmRet, legacy, unit>>

\* as export_temp, but appending to the export that is there
export_temp_append ==
    /\ pc = "export"
    /\ tempFile' = IF all_reviews # <<>> THEN File(tempFile.content \o all_reviews)
                   ELSE tempFile
    /\ savedRecords' = savedRecords \cup Range(all_reviews)
    /\ i' = i + 1
    /\ pc' = "loop"
    /\ UNCHANGED <<inputFile, ckptFile, outFile, statsFile, urls, processed_urls,
                   all_reviews, loaded, fetched, lastCrawl, committed, saves, runs,
                   manager, unit>>

\* the intermediate export after a periodic save: if all_reviews: to_csv
export_temp ==
    /\ pc = "export"
    /\ tempFile' = IF all_reviews # <<>> THEN File(all_reviews) ELSE tempFile
    /\ savedRecords' = savedRecords \cup Range(all_reviews)
    /\ i' = i + 1
    /\ pc' = "loop"
    /\ UNCHANGED <<inputFile, ckptFile, outFile, statsFile, urls, processed_urls,
                   all_reviews, loaded, fetched, lastCrawl, committed, saves, runs,
                   manager, unit>>

(***************************************************************************)
(* run(), after scrape_all_reviews has returned                            *)
(***************************************************************************)
\* if not all_reviews: return; validate_reviews, then deduplicate_reviews
run_process ==
    /\ pc = "post"
    /\ IF all_reviews = <<>>
       THEN /\ pc' = "done_empty"
            /\ all_reviews' = all_reviews
       ELSE /\ pc' = "output"
            /\ all_reviews' =
                  deduplicate_reviews(validate_reviews(all_reviews, MIN_REVIEW_LENGTH))
    /\ UNCHANGED <<files, urls, i, processed_urls, loaded, fetched, lastCrawl,
                   committed, saves, savedRecords, runs, manager, unit>>

\* save_processed_data(all_reviews, OUTPUT_FILE)
run_save_output ==
    /\ pc = "output"
    /\ IF all_reviews = <<>>
       THEN UNCHANGED <<outFile, statsFile>>
       ELSE /\ outFile' = File(OutputRows(all_reviews))
            /\ statsFile' = [exists |-> TRUE, stats |-> generate_summary_stats(all_reviews)]
    /\ pc' = "cleanup"
    /\ UNCHANGED <<inputFile, ckptFile, tempFile, urls, i, processed_urls, all_reviews,
                   loaded, fetched, lastCrawl, committed, saves, savedRecords,
                   runs, manager, unit>>

\* if os.path.exists(temp_file): os.remove(temp_file)
run_cleanup ==
    /\ pc = "cleanup"
    /\ tempFile' = IF tempFile.exists THEN NoFile ELSE tempFile
    /\ pc' = "done"
    /\ UNCHANGED <<inputFile, ckptFile, outFile, statsFile, urls, i, processed_urls,
                   all_reviews, loaded, fetched, lastCrawl, committed, saves,
                   savedRecords, runs, manager, unit>>

(***************************************************************************)
(* The process is interrupted from outside (a signal, a kill, a power      *)
(* cut).  Its memory is gone; the files stay as they are.  An interrupt    *)
(* while json.dump is writing leaves in the file what had reached it.      *)
(***************************************************************************)
Running ==
    pc \in {"start", "load", "loop", "save_periodic", "write_periodic", "write_final",
            "export", "post", "output", "cleanup"}

\* how much of a text being written may have reached the file
FlushPoints(text) == {0, Len(text) \div 2, Len(text) - 1}

Interrupt ==
    /\ Running
    /\ pc' = "interrupted"
    /\ IF pc \in {"write_periodic", "write_final"}
       THEN \E n \in FlushPoints(save_checkpoint(processed_urls, all_reviews).content) :
               ckptFile' =
                  File(SubSeq(save_checkpoint(processed_urls, all_reviews).content, 1, n))
       ELSE ckptFile' = ckptFile
    /\ UNCHANGED <<inputFile, tempFile, outFile, statsFile, urls, i, processed_urls,
                   all_reviews, loaded, fetched, lastCrawl, committed, saves,
                   savedRecords, runs, manager, unit>>

Next ==
    \/ run_read_csv
    \/ scrape_load
    \/ loop_skip
    \/ loop_process
    \/ save_open
    \/ save_write
    \/ export_temp
    \/ run_process
    \/ run_save_output
    \/ run_cleanup
    \/ Interrupt

Spec == Init /\ [][Next]_vars

(***************************************************************************)
(* The pipeline run again on the files the run before left (python         *)
(* enhanced_scraper.py a second time, after the first has ended or was     *)
(* interrupted), with the same input.                                      *)
(***************************************************************************)
Ended == pc \in {"done", "done_empty", "done_input_error", "interrupted", "crashed"}

Rerun ==
    /\ Ended
    /\ runs < MaxRuns
    /\ runs' = runs + 1
    /\ pc' = "start"
    /\ urls' = <<>>
    /\ i' = 0
    /\ processed_urls' = PyList(<<>>)
    /\ all_reviews' = <<>>
    /\ loaded' = PyNone
    /\ fetched' = {}
    /\ lastCrawl' = NoCrawl
    /\ saves' = <<>>
    /\ observed' = NoObserved
    /\ UNCHANGED <<files, committed, savedRecords, cmLast, cmRet, legacy, unit>>

\* the first run starts with no checkpoint, no export and no output
InitFresh ==
    /\ Init
    /\ inputFile.kind = "ok"
    /\ ckptFile = NoFile
    /\ tempFile = NoFile

NextResume == Next \/ Rerun

SpecResume == InitFresh /\ [][NextResume]_vars

(***************************************************************************)
(* The CheckpointManager on its own: save_checkpoint, load_checkpoint and  *)
(* clear_checkpoint called in any order on one checkpoint file.            *)
(***************************************************************************)
\* the longest list handed to save_checkpoint
MaxSaveLen == 2

\* the lists of identifiers handed to save_checkpoint: every list of up to
\* MaxSaveLen of the first three identifiers, repeats included
RECURSIVE ListsUpTo(_, _)
ListsUpTo(S, n) ==
    IF n = 0 THEN {<<>>}
    ELSE ListsUpTo(S, n - 1)
            \cup {Append(l, x) : l \in {m \in ListsUpTo(S, n - 1) : Len(m) = n - 1}, x \in S}

SaveLists == ListsUpTo({AllUrls[1], AllUrls[2], AllUrls[3]}, MaxSaveLen)

\* the record lists handed to save_checkpoint
SaveReviews ==
    { <<>>,
      PageRecords(AllUrls[1], 1, <<SiteText(AllUrls[1])>>),
      PageRecords(AllUrls[1], 1, <<SiteText(AllUrls[1]), SiteText(AllUrls[2])>>) }

InitManager ==
    /\ ckptFile \in {NoFile} \cup OddCheckpoints
                     \cup {File(JsonDump(PyDict(<<>>))),
                           File(DocWith(StrList(<<AllUrls[2], AllUrls[1]>>)))}
    /\ pc = "manager"
    /\ inputFile = [kind |-> "missing", column |-> <<>>]
    /\ tempFile = NoFile
    /\ outFile = NoFile
    /\ statsFile = NoStats
    /\ urls = <<>>
    /\ i = 0
    /\ processed_urls = PyList(<<>>)
    /\ all_reviews = <<>>
    /\ loaded = PyNone
    /\ fetched = {}
    /\ lastCrawl = NoCrawl
    /\ committed = PyList(<<>>)
    /\ saves = <<>>
    /\ savedRecords = {}
    /\ runs = 1
    /\ cmLast = NoCall
    /\ cmRet = Ret(PyNone)
    /\ legacy = NoLegacy
    /\ observed = NoObserved
    /\ NoUnitCall

run_state == <<inputFile, tempFile, outFile, statsFile, pc, urls, i, processed_urls,
               all_reviews, loaded, fetched, lastCrawl, committed, saves,
               savedRecords, runs>>

\* checkpoint.save_checkpoint(ids, reviews), from open to close
cm_save ==
    /\ pc = "manager"
    /\ \E ids \in SaveLists, reviews \in SaveReviews :
          /\ ckptFile' = save_checkpoint(StrList(ids), reviews)
          /\ cmLast' = [op |-> "save", prev |-> cmLast.op, ids |-> ids]
    /\ UNCHANGED <<run_state, cmRet, legacy, observed, unit>>

\* checkpoint.load_checkpoint()
cm_load ==
    /\ pc = "manager"
    /\ cmRet' = load_checkpoint(ckptFile)
    /\ cmLast' = [op |-> "load", prev |-> cmLast.op, ids |-> cmLast.ids]
    /\ UNCHANGED <<run_state, ckptFile, legacy, observed, unit>>

\* checkpoint.clear_checkpoint()
cm_clear ==
    /\ pc = "manager"
    /\ ckptFile' = clear_checkpoint(ckptFile)
    /\ cmLast' = [op |-> "clear", prev |-> cmLast.op, ids |-> <<>>]
    /\ UNCHANGED <<run_state, cmRet, legacy, observed, unit>>

NextManager == cm_save \/ cm_load \/ cm_clear

SpecCheckpoint == InitManager /\ [][NextManager]_vars

(***************************************************************************)
(* One function called on its own, on arguments drawn from a bounded set:  *)
(* the start of such a specification.                                      *)
(***************************************************************************)
InitUnit(where) ==
    /\ pc = where
    /\ inputFile = [kind |-> "missing", column |-> <<>>]
    /\ ckptFile = NoFile
    /\ tempFile = NoFile
    /\ outFile = NoFile
    /\ statsFile = NoStats
    /\ urls = <<>>
    /\ i = 0
    /\ processed_urls = PyList(<<>>)
    /\ all_reviews = <<>>
    /\ loaded = PyNone
    /\ fetched = {}
    /\ lastCrawl = NoCrawl
    /\ committed = PyList(<<>>)
    /\ saves = <<>>
    /\ savedRecords = {}
    /\ runs = 1
    /\ cmLast = NoCall
    /\ cmRet = Ret(PyNone)
    /\ legacy = NoLegacy
    /\ observed = NoObserved
    /\ NoUnitCall

(***************************************************************************)
(* _scrape_restaurant_reviews on its own: one identifier, and for each of  *)
(* the pages 1..MAX_PAGES what its fetch meets.                            *)
(***************************************************************************)
\* block number j of page number p of the site
PageText(p, j) == Rep("a", MIN_REVIEW_LENGTH + j) \o Rep("b", p)

\* what a page may be: without a review block, with one block, with two
\* blocks under the second selector, with one block too short to be
\* extracted, or one of the failures of the fetch
PageLabels == {"none", "one", "two", "short",
               "status", "timeout", "request_error", "error"}

PageOf(label, p) ==
    CASE label = "none"  -> PageOk(SoupOf(1, <<>>))
      [] label = "one"   -> PageOk(SoupOf(1, <<PageText(p, 1)>>))
      [] label = "two"   -> PageOk(SoupOf(2, <<PageText(p, 1), PageText(p, 2)>>))
      [] label = "short" -> PageOk(SoupOf(1, <<Rep("a", MIN_REVIEW_LENGTH - 1)>>))
      [] OTHER           -> PageFail(label)

PagesOf(script) == [p \in 1..MAX_PAGES |-> PageOf(script[p], p)]

InitCrawler == InitUnit("crawler")

\* self._scrape_restaurant_reviews(restaurant_url)
crawl_call ==
    /\ pc = "crawler"
    /\ call.op = "none"
    /\ \E restaurant_url \in {AllUrls[1], AllUrls[2]}, script \in [1..MAX_PAGES -> PageLabels] :
          /\ call' = [op |-> "crawl", url |-> restaurant_url, script |-> script]
          /\ result' = scrape_restaurant_reviews(restaurant_url, PagesOf(script))
    /\ UNCHANGED <<run_state, ckptFile, manager>>

NextCrawler == crawl_call

SpecCrawler == InitCrawler /\ [][NextCrawler]_vars

(***************************************************************************)
(* The DataProcessor on its own: validate_reviews, deduplicate_reviews and *)
(* the two in a row as run() applies them, on lists of records.            *)
(***************************************************************************)
\* the longest list of records handed to the DataProcessor
MaxRecords == 3

\* review texts: long enough or not, padded, with runs of whitespace inside,
\* in another case, without a letter, empty, and with a 'Rated ' prefix
ReviewTexts ==
    { <<"a", "b">>,
      <<"a", " ", "b">>,
      <<"a", " ", " ", "b">>,
      <<" ", "a", " ", "b", "\n">>,
      <<"a", "\t", "b">>,
      <<"A", " ", "b">>,
      <<"1", "2", "3">>,
      <<" ", " ", " ">>,
      <<>>,
      <<"R", "a", "t", "e", "d", " ", "1", "2">> }

\* the values of min_length
MinLengths == {0, 3}

\* the lists of up to n texts
RECURSIVE TextLists(_)
TextLists(n) ==
    IF n = 0 THEN {<<>>}
    ELSE TextLists(n - 1)
            \cup {Append(l, t) : l \in {m \in TextLists(n - 1) : Len(m) = n - 1},
                                 t \in ReviewTexts}

\* records with these texts; the page of a record is its place in the list,
\* so that no two records of a list are the same
RecordsOf(texts) ==
    [k \in 1..Len(texts) |->
        [restaurant_url |-> AllUrls[1], page |-> k, review |-> texts[k],
         scraped_at |-> Timestamp]]

InitProcessor == InitUnit("processor")

\* processor.validate_reviews(reviews, min_length)
validate_call ==
    /\ pc = "processor"
    /\ call.op = "none"
    /\ \E texts \in TextLists(MaxRecords), min_length \in MinLengths :
          /\ call' = [op |-> "validate", reviews |-> RecordsOf(texts),
                      min_length |-> min_length]
          /\ result' = validate_reviews(RecordsOf(texts), min_length)
    /\ UNCHANGED <<run_state, ckptFile, manager>>

\* processor.deduplicate_reviews(reviews)
dedup_call ==
    /\ pc = "processor"
    /\ call.op = "none"
    /\ \E texts \in TextLists(MaxRecords) :
          /\ call' = [op |-> "dedup", reviews |-> RecordsOf(texts), min_length |-> 0]
          /\ result' = deduplicate_reviews(RecordsOf(texts))
    /\ UNCHANGED <<run_state, ckptFile, manager>>

\* run(): validate_reviews, then deduplicate_reviews on what it returned
process_call ==
    /\ pc = "processor"
    /\ call.op = "none"
    /\ \E texts \in TextLists(MaxRecords), min_length \in MinLengths :
          /\ call' = [op |-> "process", reviews |-> RecordsOf(texts),
                      min_length |-> min_length]
          /\ result' = deduplicate_reviews(validate_reviews(RecordsOf(texts), min_length))
    /\ UNCHANGED <<run_state, ckptFile, manager>>

NextProcessor == validate_call \/ dedup_call \/ process_call

SpecProcessor == InitProcessor /\ [][NextProcessor]_vars

(***************************************************************************)
(* _extract_reviews on its own, on parsed documents.                       *)
(***************************************************************************)
\* the number of selectors, from the first of REVIEW_SELECTORS on, that may
\* match or raise in a document; the selectors after them match nothing
MaxMatching == 3

\* the texts of the blocks selector number k may match: longer than
\* MIN_REVIEW_LENGTH, a second such text, exactly MIN_REVIEW_LENGTH long,
\* shorter, with whitespace around it, and nothing but whitespace
LongText(k) == Rep("a", MIN_REVIEW_LENGTH + 1) \o Rep("b", k)

OtherText(k) == Rep("e", MIN_REVIEW_LENGTH + 1) \o Rep("b", k)

ExactText(k) == Rep("a", MIN_REVIEW_LENGTH - k) \o Rep("b", k)

ShortText(k) == Rep("a", MIN_REVIEW_LENGTH - 1 - k) \o Rep("b", k)

PaddedText(k) == <<" ", "\n">> \o Rep("d", MIN_REVIEW_LENGTH + 1) \o Rep("b", k) \o <<"\t">>

BlankText == <<" ", "\n", " ">>

\* what soup.select(selector) and the loop over its blocks may do for
\* selector number k: match nothing, raise, match blocks, or match blocks
\* and raise at the get_text of the first or of the second of them
SelectorOptions(k) ==
    { [blocks |-> <<>>, raises_at |-> 0],
      [blocks |-> <<>>, raises_at |-> 1],
      [blocks |-> <<LongText(k)>>, raises_at |-> 0],
      [blocks |-> <<ShortText(k)>>, raises_at |-> 0],
      [blocks |-> <<LongText(k), ExactText(k), PaddedText(k), BlankText, ShortText(k)>>,
       raises_at |-> 0],
      [blocks |-> <<LongText(k)>>, raises_at |-> 2],
      [blocks |-> <<LongText(k), OtherText(k)>>, raises_at |-> 3] }

SelectorIndex(sel) == CHOOSE k \in 1..Len(REVIEW_SELECTORS) : REVIEW_SELECTORS[k] = sel

\* the documents: an option for each of the first MaxMatching selectors
Soups ==
    { [sel \in Range(REVIEW_SELECTORS) |->
          IF SelectorIndex(sel) <= MaxMatching THEN choice[SelectorIndex(sel)]
          ELSE [blocks |-> <<>>, raises_at |-> 0]] :
      choice \in { c \in [1..MaxMatching -> UNION {SelectorOptions(k) : k \in 1..MaxMatching}] :
                       \A k \in 1..MaxMatching : c[k] \in SelectorOptions(k) } }

InitExtractor == InitUnit("extractor")

\* self._extract_reviews(soup)
extract_call ==
    /\ pc = "extractor"
    /\ call.op = "none"
    /\ \E soup \in Soups :
          /\ call' = [op |-> "extract", soup |-> soup]
          /\ result' = extract_reviews(soup)
    /\ UNCHANGED <<run_state, ckptFile, manager>>

NextExtractor == extract_call

SpecExtractor == InitExtractor /\ [][NextExtractor]_vars

(***************************************************************************)
(* _get_review_url on its own.  A URL is the sequence of its characters.   *)
(***************************************************************************)
\* the longest identifier handed to _get_review_url
MaxUrlLen == 4

\* the identifiers: every text of up to n characters out of "h", "/" and "r"
RECURSIVE UrlTexts(_)
UrlTexts(n) ==
    IF n = 0 THEN {<<>>}
    ELSE UrlTexts(n - 1)
            \cup {Append(u, c) : u \in {v \in UrlTexts(n - 1) : Len(v) = n - 1},
                                 c \in {"h", "/", "r"}}

\* "/reviews"
ReviewSuffix == <<"/", "r", "e", "v", "i", "e", "w", "s">>

\* str.endswith('/')
EndsWithSlash(text) == text # <<>> /\ text[Len(text)] = "/"

\* as get_review_url, but with restaurant_url.rstrip('/')
RECURSIVE get_review_url_rstrip(_)
get_review_url_rstrip(restaurant_url) ==
    IF EndsWithSlash(restaurant_url)
    THEN get_review_url_rstrip(SubSeq(restaurant_url, 1, Len(restaurant_url) - 1))
    ELSE restaurant_url \o ReviewSuffix

\* ZomatoReviewScraper._get_review_url
get_review_url(restaurant_url) ==
    (IF EndsWithSlash(restaurant_url)
     THEN SubSeq(restaurant_url, 1, Len(restaurant_url) - 1)
     ELSE restaurant_url) \o ReviewSuffix

InitReviewUrl == InitUnit("review_url")

\* scraper._get_review_url(test_url)
review_url_call ==
    /\ pc = "review_url"
    /\ call.op = "none"
    /\ \E restaurant_url \in UrlTexts(MaxUrlLen) :
          /\ call' = [op |-> "review_url", url |-> restaurant_url]
          /\ result' = get_review_url(restaurant_url)
    /\ UNCHANGED <<run_state, ckptFile, manager>>

NextReviewUrl == review_url_call

SpecReviewUrl == InitReviewUrl /\ [][NextReviewUrl]_vars

(***************************************************************************)
(* javascript_parser.py: ZomatoJSParser.extract_reviews_from_js.  A text   *)
(* is a sequence of atoms: the characters that matter to the pattern and   *)
(* to JSON (quote, backslash, brackets, colon, comma) one by one, and every *)
(* run of other characters as one word.                                    *)
(***************************************************************************)
\* the most review entities of an embedded state
MaxEntities == 2

Quote == Tok("quote")

Backslash == Tok("backslash")

Word(str) == [k |-> "word", s |-> str, n |-> 0]

\* the JSON text of a token sequence, atom by atom
RECURSIVE TextOfTokens(_)
TextOfTokens(toks) ==
    IF toks = <<>> THEN <<>>
    ELSE (IF Head(toks).k = "str"
          THEN <<Quote>> \o (IF Head(toks).s = "" THEN <<>> ELSE <<Word(Head(toks).s)>>)
                         \o <<Quote>>
          ELSE <<Head(toks)>>)
            \o TextOfTokens(Tail(toks))

\* how a page writes a JSON text inside the JavaScript string literal of
\* JSON.parse("..."): a backslash before every quote and every backslash
RECURSIVE JsEscape(_)
JsEscape(text) ==
    IF text = <<>> THEN <<>>
    ELSE (IF Head(text) \in {Quote, Backslash} THEN <<Backslash, Head(text)>>
          ELSE <<Head(text)>>)
            \o JsEscape(Tail(text))

\* the page: without the state assignment, or with
\* window.__PRELOADED_STATE__ = JSON.parse(" followed by `rest`
NoStatePage == [has_state |-> FALSE, rest |-> <<>>]

StatePage(literal) ==
    [has_state |-> TRUE, rest |-> literal \o <<Quote, Tok(")"), Tok(";")>>]

\* re.search(js_pattern, html_content): group 1 is the run of atoms other
\* than a quote after JSON.parse(" -- at least one -- and it must be
\* followed by ");
RegexGroup(html) ==
    IF ~html.has_state \/ ~ \E n \in 1..Len(html.rest) : html.rest[n] = Quote
    THEN [matched |-> FALSE, group |-> <<>>]
    ELSE LET n == CHOOSE m \in 1..Len(html.rest) :
                     html.rest[m] = Quote /\ \A j \in 1..(m - 1) : html.rest[j] # Quote
         IN  IF /\ n > 1
                /\ n + 2 <= Len(html.rest)
                /\ html.rest[n + 1] = Tok(")")
                /\ html.rest[n + 2] = Tok(";")
             THEN [matched |-> TRUE, group |-> SubSeq(html.rest, 1, n - 1)]
             ELSE [matched |-> FALSE, group |-> <<>>]

\* js_data.replace('\\"', '"').replace('\\\\', '\\')
JsUnescape(js_data) ==
    Replace(Replace(js_data, <<Backslash, Quote>>, <<Quote>>),
            <<Backslash, Backslash>>, <<Backslash>>)

\* the tokens json.loads sees in a text: a string is what stands between
\* two quotes; a word outside quotes or a backslash is no JSON
RECURSIVE Lex(_)
Lex(text) ==
    IF text = <<>> THEN [ok |-> TRUE, toks |-> <<>>]
    ELSE IF Head(text) = Quote
    THEN IF Len(text) >= 2 /\ text[2] = Quote
         THEN LET r == Lex(SubSeq(text, 3, Len(text))) IN
              [ok |-> r.ok, toks |-> <<TokStr("")>> \o r.toks]
         ELSE IF Len(text) >= 3 /\ text[2].k = "word" /\ text[3] = Quote
         THEN LET r == Lex(SubSeq(text, 4, Len(text))) IN
              [ok |-> r.ok, toks |-> <<TokStr(text[2].s)>> \o r.toks]
         ELSE [ok |-> FALSE, toks |-> <<>>]
    ELSE IF Head(text).k \in {"word", "backslash", ")", ";"}
    THEN [ok |-> FALSE, toks |-> <<>>]
    ELSE LET r == Lex(Tail(text)) IN [ok |-> r.ok, toks |-> <<Head(text)>> \o r.toks]

\* json.loads(js_data)
JsonLoads(text) ==
    IF Lex(text).ok THEN JsonLoad(Lex(text).toks) ELSE Raise("JSONDecodeError")

\* str.strip() of the review texts of the model
JsStrip(str) ==
    CASE str = " nice " -> "nice"
      [] str = "  "     -> ""
      [] OTHER          -> str

\* x.get(key, default) on a value that may not be a dict
PyGet(v, key, default) ==
    IF v.t = "dict" THEN Ret(DictGet(v, key, default)) ELSE Raise("AttributeError")

\* the loop over review_entities.items(), from entry k on
RECURSIVE WalkReviews(_, _, _)
WalkReviews(items, k, reviews) ==
    IF k > Len(items) THEN Ret(reviews)
    ELSE LET review_data == items[k].items[1]
             status == PyGet(review_data, "status", PyNone)
             text == PyGet(review_data, "reviewText", PyStr(""))
         IN  IF status.exc # "none" THEN status
             ELSE IF status.val # PyStr("success") THEN WalkReviews(items, k + 1, reviews)
             ELSE IF text.val.t # "str" THEN Raise("AttributeError")
             ELSE IF JsStrip(text.val.s) = "" THEN WalkReviews(items, k + 1, reviews)
             ELSE WalkReviews(items, k + 1,
                              Append(reviews,
                                     [review_id |-> DictGet(review_data, "reviewId", PyNone),
                                      review_text |-> JsStrip(text.val.s)]))

\* the body of the outer try of extract_reviews_from_js
ExtractJsBody(html) ==
    LET match == RegexGroup(html) IN
    IF ~match.matched THEN Ret(<<>>)
    ELSE LET data == JsonLoads(JsUnescape(match.group)) IN
         IF data.exc # "none" THEN Ret(<<>>)
         ELSE LET entities == PyGet(data.val, "entities", PyDict(<<>>)) IN
              IF entities.exc # "none" THEN entities
              ELSE LET review_entities == PyGet(entities.val, "REVIEWS", PyDict(<<>>)) IN
                   IF review_entities.exc # "none" THEN review_entities
                   ELSE IF review_entities.val.t # "dict" THEN Raise("AttributeError")
                   ELSE WalkReviews(review_entities.val.items, 1, <<>>)

\* ZomatoJSParser.extract_reviews_from_js: except Exception: return []
extract_reviews_from_js(html) ==
    IF ExtractJsBody(html).exc # "none" THEN <<>> ELSE ExtractJsBody(html).val

\* a review entity: its status ("" for none) and its text ("-" for none,
\* "null" for a JSON null)
ReviewEntity(id, status, text) ==
    PyDict((IF status = "" THEN <<>> ELSE <<PyEntry("status", PyStr(status))>>)
           \o <<PyEntry("reviewId", PyStr(id))>>
           \o (CASE text = "-"    -> <<>>
                 [] text = "null" -> <<PyEntry("reviewText", PyNone)>>
                 [] OTHER         -> <<PyEntry("reviewText", PyStr(text))>>))

EntityKinds ==
    {[status |-> st, text |-> tx] : st \in {"success", "failed", ""},
                                    tx \in {" nice ", "  ", "", "-", "null"}}

\* the lists of up to n entity kinds
RECURSIVE EntityLists(_)
EntityLists(n) ==
    IF n = 0 THEN {<<>>}
    ELSE EntityLists(n - 1)
            \cup {Append(l, e) : l \in {m \in EntityLists(n - 1) : Len(m) = n - 1},
                                 e \in EntityKinds}

EntityId(k) == <<"r1", "r2", "r3", "r4">>[k]

\* the embedded state with these review entities
StateOf(kinds) ==
    PyDict(<< PyEntry("entities",
                PyDict(<< PyEntry("REVIEWS",
                            PyDict([k \in 1..Len(kinds) |->
                                      PyEntry(EntityId(k),
                                              ReviewEntity(EntityId(k), kinds[k].status,
                                                           kinds[k].text))])) >>)) >>)

\* the page a site serves for a state: its JSON text inside JSON.parse("...")
PageWithState(state) == StatePage(JsEscape(TextOfTokens(JsonDump(state))))

\* the pages: with a state of review entities, with a state that is not an
\* object, with a text that is no JSON, and without a state
JsPages ==
    {[kind |-> "state", kinds |-> kinds, html |-> PageWithState(StateOf(kinds))] :
        kinds \in EntityLists(MaxEntities)}
    \cup {[kind |-> "number", kinds |-> <<>>, html |-> PageWithState(PyInt(5))],
          [kind |-> "garbage", kinds |-> <<>>, html |-> StatePage(<<Tok("{")>>)],
          [kind |-> "absent", kinds |-> <<>>, html |-> NoStatePage]}

InitJsParser == InitUnit("js_parser")

\* parser.extract_reviews_from_js(html_content)
js_extract_call ==
    /\ pc = "js_parser"
    /\ call.op = "none"
    /\ \E page \in JsPages :
          /\ call' = [op |-> "js", kind |-> page.kind, kinds |-> page.kinds]
          /\ result' = extract_reviews_from_js(page.html)
    /\ UNCHANGED <<run_state, ckptFile, manager>>

NextJsParser == js_extract_call

SpecJsParser == InitJsParser /\ [][NextJsParser]_vars

(***************************************************************************)
(* _scrape_restaurant_reviews step by step: the sleeps and the fetches of  *)
(* one crawl in the order they happen.  What a fetch meets is chosen when  *)
(* the fetch is made.                                                      *)
(***************************************************************************)
\* DELAY_RANGE = (1, 3), in seconds
DELAY_RANGE == <<1, 3>>

\* random.uniform(*DELAY_RANGE), in whole seconds
Delays == DELAY_RANGE[1]..DELAY_RANGE[2]

\* as PageRange, but with one page more
PageRangeInclusive == 1..(MAX_PAGES + 1)

\* range(1, MAX_PAGES + 1)
PageRange == 1..MAX_PAGES

Slept(delay) == [e |-> "sleep", d |-> delay, page |-> 0]

Got(page) == [e |-> "get", d |-> 0, page |-> page]

InitCrawlSteps == InitUnit("crawl_steps")

\* review_url = ...; restaurant_reviews = []; the loop over the pages starts
crawl_begin ==
    /\ pc = "crawl_steps"
    /\ call.op = "none"
    /\ call' = [op |-> "crawl_steps", url |-> AllUrls[1]]
    /\ result' = [at |-> "loop", page |-> 1, trace |-> <<>>, script |-> <<>>,
                  reviews |-> <<>>, stop |-> "none"]
    /\ UNCHANGED <<run_state, ckptFile, manager>>

\* as crawl_sleep, but without a delay before the first page
crawl_sleep_after_first ==
    /\ pc = "crawl_steps"
    /\ call.op = "crawl_steps"
    /\ result.at = "loop"
    /\ result.page \in PageRange
    /\ \E delay \in Delays :
          result' = [result EXCEPT !.at = "slept",
                                   !.trace = IF result.page = 1 THEN @
                                             ELSE Append(@, Slept(delay))]
    /\ UNCHANGED <<run_state, ckptFile, manager, call>>

\* delay = random.uniform(*DELAY_RANGE); time.sleep(delay)
crawl_sleep ==
    /\ pc = "crawl_steps"
    /\ call.op = "crawl_steps"
    /\ result.at = "loop"
    /\ result.page \in PageRange
    /\ \E delay \in Delays :
          result' = [result EXCEPT !.at = "slept", !.trace = Append(@, Slept(delay))]
    /\ UNCHANGED <<run_state, ckptFile, manager, call>>

\* session.get(full_url), and what follows it in the body of the loop: a
\* break, or the records of the page and the next page
crawl_fetch ==
    /\ pc = "crawl_steps"
    /\ call.op = "crawl_steps"
    /\ result.at = "slept"
    /\ \E label \in PageLabels :
          LET page == result.page
              fetched_page == PageOf(label, page)
              page_reviews == extract_reviews(fetched_page.soup)
              after == [result EXCEPT !.trace = Append(@, Got(page)),
                                      !.script = Append(@, label)]
          IN  result' =
                 IF fetched_page.kind # "ok"
                 THEN [after EXCEPT !.at = "returned", !.stop = fetched_page.kind]
                 ELSE IF page_reviews = <<>>
                 THEN [after EXCEPT !.at = "returned", !.stop = "empty"]
                 ELSE [after EXCEPT !.at = "loop", !.page = page + 1,
                                    !.reviews = @ \o PageRecords(call.url, page, page_reviews)]
    /\ UNCHANGED <<run_state, ckptFile, manager, call>>

\* the range of the loop is used up: return restaurant_reviews
crawl_return ==
    /\ pc = "crawl_steps"
    /\ call.op = "crawl_steps"
    /\ result.at = "loop"
    /\ result.page \notin PageRange
    /\ result' = [result EXCEPT !.at = "returned", !.stop = "limit"]
    /\ UNCHANGED <<run_state, ckptFile, manager, call>>

NextCrawlSteps ==
    \/ crawl_begin
    \/ crawl_sleep
    \/ crawl_fetch
    \/ crawl_return

SpecCrawlSteps == InitCrawlSteps /\ [][NextCrawlSteps]_vars

\* time.sleep returns after the delay and session.get returns or raises
\* within its timeout: a step of the crawl that can be taken is taken
SpecCrawlStepsFair == SpecCrawlSteps /\ WF_vars(NextCrawlSteps)

(***************************************************************************)
(* reviewscrap.py, the script the pipeline was made from: its checkpoint   *)
(* functions and its main loop.  The script and scrape_all_reviews are run *)
(* on the same input and the same checkpoint file, each on a copy of the   *)
(* file; the script is run once scrape_all_reviews has ended.              *)
(***************************************************************************)
\* reviewscrap.py load_checkpoint: no try, checkpoint['processed_urls'], and
\* len() of it in the log line
legacy_load_checkpoint(file) ==
    IF file.exists
    THEN LET checkpoint == JsonLoad(file.content) IN
         IF checkpoint.exc # "none" THEN checkpoint
         ELSE IF checkpoint.val.t # "dict" THEN Raise("TypeError")
         ELSE IF ~ \E k \in 1..Len(checkpoint.val.items) :
                      checkpoint.val.items[k].s = "processed_urls"
              THEN Raise("KeyError")
         ELSE LET processed == DictGet(checkpoint.val, "processed_urls", PyNone) IN
              IF PyLen(processed).exc # "none" THEN PyLen(processed)
              ELSE Ret(processed)
    ELSE Ret(PyList(<<>>))

\* reviewscrap.py save_checkpoint: the dict has no last_processed
legacy_save_checkpoint(processed, reviews) ==
    File(JsonDump(PyDict(<< PyEntry("processed_urls", processed),
                            PyEntry("total_reviews", PyInt(Len(reviews))),
                            PyEntry("timestamp", PyStr(Timestamp)) >>)))

\* the loop over the pages in the body of the main loop: the same statements
\* as _scrape_restaurant_reviews
legacy_crawl(res_url, pages) == CrawlFrom(res_url, pages, 1, <<>>)

\* scrape_all_reviews has returned or was left by an exception
NewEnded == pc \in {"post", "crashed"}

\* the fetches of the script for an identifier meet what the fetches of
\* scrape_all_reviews met for it
SameOutcomes(res_url, pages) ==
    res_url \in fetched =>
        legacy_crawl(res_url, pages).reviews
            = SelectSeq(all_reviews, LAMBDA rec : rec.restaurant_url = res_url)

InitEquiv ==
    /\ inputFile \in {f \in InputFiles : f.kind = "ok"}
    /\ \/ /\ ckptFile \in {NoFile} \cup OddCheckpoints
          /\ committed = PyList(<<>>)
       \/ \E ids \in CheckpointLists(inputFile.column) :
             /\ ckptFile \in {save_checkpoint(StrList(ids), <<>>),
                              legacy_save_checkpoint(StrList(ids), <<>>)}
             /\ committed = StrList(ids)
    /\ tempFile = NoFile
    /\ outFile = NoFile
    /\ statsFile = NoStats
    /\ FreshRun
    /\ savedRecords = {}
    /\ runs = 1
    /\ cmLast = NoCall
    /\ cmRet = Ret(PyNone)
    /\ legacy = [NoLegacy EXCEPT !.pc = "start", !.startFile = ckptFile,
                                 !.ckptFile = ckptFile]
    /\ observed = NoObserved
    /\ NoUnitCall

new_run == <<inputFile, ckptFile, tempFile, outFile, statsFile, pc, urls, i,
             processed_urls, all_reviews, loaded, fetched, lastCrawl, committed,
             saves, savedRecords, runs, cmLast, cmRet, observed, call, result>>

\* STEP 1: urls = df['url'].dropna().unique().tolist()
legacy_read_csv ==
    /\ NewEnded
    /\ legacy.pc = "start"
    /\ legacy' = [legacy EXCEPT !.pc = IF inputFile.kind = "ok" THEN "load" ELSE "crashed",
                                !.urls = IF inputFile.kind = "ok"
                                         THEN ReadUrls(inputFile.column) ELSE @]
    /\ UNCHANGED new_run

\* all_reviews = []; processed_urls = load_checkpoint()
legacy_load ==
    /\ NewEnded
    /\ legacy.pc = "load"
    /\ LET got == legacy_load_checkpoint(legacy.ckptFile) IN
          legacy' = IF got.exc # "none" THEN [legacy EXCEPT !.pc = "crashed"]
                    ELSE [legacy EXCEPT !.pc = "loop", !.i = 0,
                                        !.processed_urls = got.val,
                                        !.all_reviews = <<>>]
    /\ UNCHANGED new_run

\* if res_url in processed_urls: continue
legacy_skip ==
    /\ NewEnded
    /\ legacy.pc = "loop"
    /\ legacy.i < Len(legacy.urls)
    /\ LET res_url == legacy.urls[legacy.i + 1]
           found == PyContains(legacy.processed_urls, res_url)
       IN  /\ found.exc # "none" \/ found.val.n = 1
           /\ legacy' = IF found.exc # "none" THEN [legacy EXCEPT !.pc = "crashed"]
                        ELSE [legacy EXCEPT !.i = @ + 1,
                                            !.skipped = Append(@, res_url)]
    /\ UNCHANGED new_run

\* as legacy_process, but the periodic save is due when the number of
\* processed identifiers is a multiple of the chunk size
legacy_process_by_count ==
    /\ NewEnded
    /\ legacy.pc = "loop"
    /\ legacy.i < Len(legacy.urls)
    /\ PyContains(legacy.processed_urls, legacy.urls[legacy.i + 1]) = Ret(PyInt(0))
    /\ \E pages \in FetchScripts(legacy.urls[legacy.i + 1]) :
          LET res_url == legacy.urls[legacy.i + 1]
              crawl == legacy_crawl(res_url, pages)
              appended == PyAppend(legacy.processed_urls, res_url)
          IN  /\ SameOutcomes(res_url, pages)
              /\ legacy' =
                    IF crawl.exc # "none" THEN [legacy EXCEPT !.i = @ + 1]
                    ELSE IF appended.exc # "none"
                    THEN [legacy EXCEPT !.pc = "crashed",
                                        !.all_reviews = @ \o crawl.reviews]
                    ELSE IF Len(appended.val.items) % CHUNK_SIZE = 0
                    THEN [legacy EXCEPT !.pc = "save_periodic",
                                        !.all_reviews = @ \o crawl.reviews,
                                        !.processed_urls = appended.val]
                    ELSE [legacy EXCEPT !.i = @ + 1,
                                        !.all_reviews = @ \o crawl.reviews,
                                        !.processed_urls = appended.val]
    /\ UNCHANGED new_run

\* the body of the main loop for an identifier that is not skipped: the
\* crawl (an exception leaving it goes on to the next identifier), extend,
\* append, and the test for the periodic save
legacy_process ==
    /\ NewEnded
    /\ legacy.pc = "loop"
    /\ legacy.i < Len(legacy.urls)
    /\ PyContains(legacy.processed_urls, legacy.urls[legacy.i + 1]) = Ret(PyInt(0))
    /\ \E pages \in FetchScripts(legacy.urls[legacy.i + 1]) :
          LET res_url == legacy.urls[legacy.i + 1]
              crawl == legacy_crawl(res_url, pages)
              appended == PyAppend(legacy.processed_urls, res_url)
          IN  /\ SameOutcomes(res_url, pages)
              /\ legacy' =
                    IF crawl.exc # "none" THEN [legacy EXCEPT !.i = @ + 1]
                    ELSE IF appended.exc # "none"
                    THEN [legacy EXCEPT !.pc = "crashed",
                                        !.all_reviews = @ \o crawl.reviews]
                    ELSE IF (legacy.i + 1) % CHUNK_SIZE = 0
                    THEN [legacy EXCEPT !.pc = "save_periodic",
                                        !.all_reviews = @ \o crawl.reviews,
                                        !.processed_urls = appended.val]
                    ELSE [legacy EXCEPT !.i = @ + 1,
                                        !.all_reviews = @ \o crawl.reviews,
                                        !.processed_urls = appended.val]
    /\ UNCHANGED new_run

\* save_checkpoint(processed_urls, all_reviews): in the body of the loop,
\* and after the loop
legacy_save ==
    /\ NewEnded
    /\ \/ legacy.pc = "save_periodic"
       \/ legacy.pc = "loop" /\ legacy.i = Len(legacy.urls)
    /\ legacy' =
          [legacy EXCEPT !.ckptFile = legacy_save_checkpoint(legacy.processed_urls,
                                                             legacy.all_reviews),
                         !.saves = Append(@, legacy.processed_urls),
                         !.savedAt = Append(@, IF legacy.pc = "save_periodic"
                                               THEN PeriodicAt(legacy.i + 1)
                                               ELSE FinalSave),
                         !.pc = IF legacy.pc = "save_periodic" THEN "export" ELSE "done"]
    /\ UNCHANGED new_run

\* if all_reviews: temp_df.to_csv(temp file)
legacy_export ==
    /\ NewEnded
    /\ legacy.pc = "export"
    /\ legacy' = [legacy EXCEPT !.tempFile = IF legacy.all_reviews # <<>>
                                             THEN File(legacy.all_reviews) ELSE @,
                                !.i = @ + 1,
                                !.pc = "loop"]
    /\ UNCHANGED new_run

NextEquiv ==
    \/ run_read_csv
    \/ scrape_load
    \/ loop_skip
    \/ loop_process
    \/ save_open
    \/ save_write
    \/ export_temp
    \/ legacy_read_csv
    \/ legacy_load
    \/ legacy_skip
    \/ legacy_process
    \/ legacy_save
    \/ legacy_export

SpecEquiv == InitEquiv /\ [][NextEquiv]_vars

(***************************************************************************)
(* Properties                                                              *)
(***************************************************************************)
\* u is an element of the Python list v
InList(v, u) == PyStr(u) \in Range(v.items)

\* the run has left the loop of scrape_all_reviews and made its final save
AfterLoop == pc \in {"post", "output", "cleanup", "done", "done_empty"}

AllInCheckpoint ==
    loaded.t = "list" /\ \A k \in 1..Len(urls) : InList(loaded, urls[k])

NoneInCheckpoint ==
    loaded.t = "list" /\ \A k \in 1..Len(urls) : ~InList(loaded, urls[k])

ErrorStops == {"status", "timeout", "request_error", "error"}

\* C1: an identifier in the list load_checkpoint returned to the run is
\* never fetched in that run and has no record in all_reviews; when every
\* input identifier is in that list the run fetches nothing and its final
\* checkpoint holds the loaded list.
C1_CheckpointedNeverCrawled ==
    loaded.t = "list" =>
        /\ \A u \in fetched : ~InList(loaded, u)
        /\ \A k \in 1..Len(all_reviews) : ~InList(loaded, all_reviews[k].restaurant_url)
        /\ AllInCheckpoint => fetched = {}
        /\ AllInCheckpoint /\ AfterLoop =>
              /\ saves = <<loaded>>
              /\ load_checkpoint(ckptFile) = Ret(loaded)

\* a run over two or more identifiers, all of them checkpointed, has ended
C1_Witness ==
    /\ pc = "done_empty"
    /\ Len(urls) >= 2
    /\ AllInCheckpoint
    /\ fetched = {}
    /\ load_checkpoint(ckptFile) = Ret(loaded)

\* C2: the records a run had accumulated at a periodic save (checkpoint and
\* intermediate export written) are not lost by an interrupt and a rerun:
\* when a run has completed, each of them is a row of the final output (with
\* its text cleaned).
C2_SavedRecordsReachOutput ==
    pc \in {"done", "done_empty"} =>
        \A r \in savedRecords :
            /\ outFile.exists
            /\ \E k \in 1..Len(outFile.content) :
                  /\ outFile.content[k].restaurant_url = r.restaurant_url
                  /\ outFile.content[k].page = r.page
                  /\ outFile.content[k].review = clean_review_text(Strip(r.review))

\* C3: an identifier whose crawl met an error is not appended to the
\* processed list.
C3_FailedNotMarkedProcessed ==
    lastCrawl.stop \in ErrorStops => ~InList(processed_urls, lastCrawl.url)

Unsaved == {u \in fetched : ~InList(committed, u)}

\* C5: at every point of a run at most CHUNK_SIZE identifiers have been
\* crawled in this run without being in the last checkpoint saved.
C5_UnsavedAtMostChunk == Cardinality(Unsaved) <= CHUNK_SIZE

\* C6: after an interrupt, whenever it comes, load_checkpoint returns no
\* fewer identifiers than the last completed save recorded.
C6_InterruptKeepsSnapshot ==
    pc = "interrupted" =>
        Len(load_checkpoint(ckptFile).val.items) >= Len(committed.items)

\* C7: load_checkpoint right after save_checkpoint(ids, reviews) returns ids.
C7_SaveLoadRoundTrip ==
    cmLast.op = "load" /\ cmLast.prev = "save" => cmRet = Ret(StrList(cmLast.ids))

\* a list of two different identifiers has been saved and loaded
C7_Witness ==
    /\ cmLast.op = "load"
    /\ cmLast.prev = "save"
    /\ Len(cmLast.ids) = 2
    /\ cmLast.ids[1] # cmLast.ids[2]
    /\ cmRet = Ret(StrList(cmLast.ids))

\* C8: whatever the checkpoint file holds, load_checkpoint gives the run a
\* list and the run is not aborted.
C8_OddCheckpointHarmless ==
    /\ loaded.t \in {"none", "list"}
    /\ pc # "crashed"

\* the checkpoint file holds a JSON object
IsObject(file) ==
    /\ file.exists
    /\ JsonLoad(file.content).exc = "none"
    /\ JsonLoad(file.content).val.t = "dict"

HasField(file, key) ==
    \E k \in 1..Len(JsonLoad(file.content).val.items) :
        JsonLoad(file.content).val.items[k].s = key

\* C9: load_checkpoint of a JSON object without the processed_urls field
\* returns the empty list, and the absence of any other field does not keep
\* it from returning the list of the processed_urls field.
C9_MissingFieldsDefault ==
    cmLast.op = "load" /\ IsObject(ckptFile) =>
        /\ ~HasField(ckptFile, "processed_urls") => cmRet = Ret(PyList(<<>>))
        /\ /\ HasField(ckptFile, "processed_urls")
           /\ DictGet(JsonLoad(ckptFile.content).val, "processed_urls", PyNone).t = "list"
           => cmRet = Ret(DictGet(JsonLoad(ckptFile.content).val, "processed_urls", PyNone))

\* an object that has another field but not processed_urls has been loaded
C9_Witness ==
    /\ cmLast.op = "load"
    /\ IsObject(ckptFile)
    /\ HasField(ckptFile, "total_reviews")
    /\ ~HasField(ckptFile, "processed_urls")
    /\ cmRet = Ret(PyList(<<>>))

\* C10: the processed list of a run and the lists its saves write each have
\* the loaded list, and the list of the save before, as a prefix.
C10_ProcessedOnlyGrows ==
    loaded.t = "list" =>
        /\ IsPrefix(loaded.items, processed_urls.items)
        /\ \A k \in 1..Len(saves) :
              /\ IsPrefix(loaded.items, saves[k].items)
              /\ IsPrefix(saves[k].items, processed_urls.items)
              /\ k > 1 => IsPrefix(saves[k - 1].items, saves[k].items)

\* a run that loaded a non-empty list has saved two different lists
C10_Witness ==
    /\ loaded.t = "list"
    /\ loaded.items # <<>>
    /\ Len(saves) >= 2
    /\ saves[1] # saves[2]

\* the identifiers of the input crawled in this run, in input order
RECURSIVE CrawledFrom(_)
CrawledFrom(ids) ==
    IF ids = <<>> THEN <<>>
    ELSE (IF Head(ids) \in fetched THEN <<Head(ids)>> ELSE <<>>) \o CrawledFrom(Tail(ids))

\* C11: once the loop of scrape_all_reviews has ended, whatever the number
\* of identifiers, the final save has been made: the last list saved is the
\* processed list, the checkpoint file gives it back, and it is the loaded
\* list followed by the identifiers crawled in this run, in input order.  A
\* run that loaded a list never fails on the way there.
C11_FinalCheckpoint ==
    /\ AfterLoop =>
          /\ saves # <<>>
          /\ saves[Len(saves)] = processed_urls
          /\ load_checkpoint(ckptFile) = Ret(processed_urls)
          /\ loaded.t = "list" =>
                processed_urls = PyList(loaded.items \o StrList(CrawledFrom(urls)).items)
    /\ loaded.t = "list" => pc # "crashed"

\* a run whose input is not a multiple of CHUNK_SIZE long, which skipped a
\* checkpointed identifier and crawled another, has made its final save
C11_Witness ==
    /\ pc = "post"
    /\ Len(urls) % CHUNK_SIZE # 0
    /\ loaded.t = "list"
    /\ \E k \in 1..Len(urls) : InList(loaded, urls[k])
    /\ fetched # {}
    /\ saves[Len(saves)] = PyList(loaded.items \o StrList(CrawledFrom(urls)).items)
    /\ load_checkpoint(ckptFile) = Ret(saves[Len(saves)])

\* C12: whenever run() has returned after the loop of scrape_all_reviews
\* finished (with or without records), no intermediate export file remains.
C12_NoExportAfterReturn ==
    pc \in {"done", "done_empty"} => ~tempFile.exists

\* the page was fetched and _extract_reviews returned at least one text
Yields(page) == page.kind = "ok" /\ extract_reviews(page.soup) # <<>>

\* the page was fetched and _extract_reviews returned no text
YieldsNone(page) == page.kind = "ok" /\ extract_reviews(page.soup) = <<>>

\* one record for each text extracted from the pages 1..n, in page order
RECURSIVE RecordsOfPages(_, _, _)
RecordsOfPages(restaurant_url, pages, n) ==
    IF n = 0 THEN <<>>
    ELSE RecordsOfPages(restaurant_url, pages, n - 1)
            \o [j \in 1..Len(extract_reviews(pages[n].soup)) |->
                   [restaurant_url |-> restaurant_url, page |-> n,
                    review |-> extract_reviews(pages[n].soup)[j],
                    scraped_at |-> Timestamp]]

\* C13: when the pages 1..k-1 each yield a text and page k yields none, the
\* crawl issues exactly k fetches and returns exactly the records of the
\* pages 1..k-1: one for each extracted text, with the identifier and the
\* page number, in page order.
C13_StopsAtEmptyPage ==
    call.op = "crawl" =>
        \A k \in 1..MAX_PAGES :
            /\ \A p \in 1..(k - 1) : Yields(PagesOf(call.script)[p])
            /\ YieldsNone(PagesOf(call.script)[k])
            => /\ result.fetches = k
               /\ result.stop = "empty"
               /\ result.reviews = RecordsOfPages(call.url, PagesOf(call.script), k - 1)

\* a crawl met two blocks on page 1, one on page 2 and none on page 3
C13_Witness ==
    /\ call.op = "crawl"
    /\ call.script[1] = "two"
    /\ call.script[2] = "one"
    /\ call.script[3] = "none"
    /\ result.fetches = 3
    /\ Len(result.reviews) = 3
    /\ result.reviews[3].page = 2

\* C14: no exception leaves _scrape_restaurant_reviews; when the fetch of
\* page p meets another status, a timeout, a request error or any other
\* exception after the pages 1..p-1 each yielded a text, page p is the last
\* page fetched, and fetched once, and the records of the pages 1..p-1 are
\* returned.
C14_ErrorStopsCrawl ==
    call.op = "crawl" =>
        /\ result.exc = "none"
        /\ \A p \in 1..MAX_PAGES :
              /\ \A q \in 1..(p - 1) : Yields(PagesOf(call.script)[q])
              /\ PagesOf(call.script)[p].kind \in ErrorStops
              => /\ result.fetches = p
                 /\ result.stop = PagesOf(call.script)[p].kind
                 /\ result.reviews = RecordsOfPages(call.url, PagesOf(call.script), p - 1)

\* a crawl met a timeout on page 2 and returned the record of page 1
C14_Witness ==
    /\ call.op = "crawl"
    /\ call.script[1] = "one"
    /\ call.script[2] = "timeout"
    /\ result.exc = "none"
    /\ result.fetches = 2
    /\ Len(result.reviews) = 1

\* the trimmed text has at least one alphabetic character
HasAlpha(text) == \E k \in 1..Len(Strip(text)) : IsAlpha(Strip(text)[k])

\* C15: the result of deduplicate_reviews(validate_reviews(R, min_length))
\* has no two records with the same trimmed text, and the trimmed text of
\* each of its records is at least min_length long and has an alphabetic
\* character.
C15_ProcessedRecordsValidAndUnique ==
    call.op = "process" =>
        /\ \A j, k \in 1..Len(result) :
              j # k => Strip(result[j].review) # Strip(result[k].review)
        /\ \A k \in 1..Len(result) :
              /\ Len(Strip(result[k].review)) >= call.min_length
              /\ HasAlpha(result[k].review)

\* the trimmed text of the record is at least min_length long and has an
\* alphabetic character
ValidText(text, min_length) == Len(Strip(text)) >= min_length /\ HasAlpha(text)

\* the records of the list with a valid text, as they are and in their order
RECURSIVE ValidOnes(_, _)
ValidOnes(reviews, min_length) ==
    IF reviews = <<>> THEN <<>>
    ELSE (IF ValidText(Head(reviews).review, min_length) THEN <<Head(reviews)>> ELSE <<>>)
            \o ValidOnes(Tail(reviews), min_length)

\* C16: validate_reviews(records, min_length) returns exactly the records
\* whose trimmed text is at least min_length long and has an alphabetic
\* character, unmodified and in their order; repeated texts stay.
C16_ValidateFilters ==
    call.op = "validate" => result = ValidOnes(call.reviews, call.min_length)

\* validate_reviews dropped a record and returned two records with the same
\* trimmed text
C16_Witness ==
    /\ call.op = "validate"
    /\ Len(result) = 2
    /\ Len(call.reviews) = 3
    /\ Strip(result[1].review) = Strip(result[2].review)
    /\ result[1].page # result[2].page

\* record number k is the first of the list with its trimmed text, and that
\* text is not empty
FirstOccurrence(reviews, k) ==
    /\ Strip(reviews[k].review) # <<>>
    /\ \A j \in 1..(k - 1) : Strip(reviews[j].review) # Strip(reviews[k].review)

\* the first occurrences among the records k.., their text normalised
RECURSIVE FirstOnes(_, _)
FirstOnes(reviews, k) ==
    IF k > Len(reviews) THEN <<>>
    ELSE (IF FirstOccurrence(reviews, k)
          THEN <<[reviews[k] EXCEPT !.review = clean_review_text(Strip(reviews[k].review))]>>
          ELSE <<>>)
            \o FirstOnes(reviews, k + 1)

\* C17: deduplicate_reviews(records) returns, in their order, the first
\* record of each distinct non-empty trimmed text (texts compared as they
\* are before normalisation, case-sensitively), with its text normalised,
\* and nothing else: as many records as there are distinct non-empty trimmed
\* texts, whatever their length.
C17_DedupKeepsFirst ==
    call.op = "dedup" =>
        /\ result = FirstOnes(call.reviews, 1)
        /\ Len(result) = Cardinality({Strip(call.reviews[k].review) :
                                         k \in 1..Len(call.reviews)} \ {<<>>})

\* deduplicate_reviews met a text, another one, and the first text again,
\* and returned the first two records
C17_Witness ==
    /\ call.op = "dedup"
    /\ Len(call.reviews) = 3
    /\ Strip(call.reviews[1].review) = Strip(call.reviews[3].review)
    /\ Len(result) = 2
    /\ result[1].page = 1
    /\ result[2].page = 2
    /\ Len(Strip(call.reviews[2].review)) < 3

\* what selector number k does in the document of the call
Sel(k) == call.soup[REVIEW_SELECTORS[k]]

\* selector number k matches at least one element of the document
Matches(k) == Sel(k).raises_at # 1 /\ Sel(k).blocks # <<>>

\* the evaluation of selector number k raises
Fails(k) == Sel(k).raises_at > 0

\* the first selector of REVIEW_SELECTORS that matches
FirstMatch == CHOOSE k \in 1..Len(REVIEW_SELECTORS) :
                 Matches(k) /\ \A j \in 1..(k - 1) : ~Matches(j)

\* the trimmed texts of the blocks, in their order, that are longer than n
RECURSIVE TextsOver(_, _)
TextsOver(blocks, n) ==
    IF blocks = <<>> THEN <<>>
    ELSE (IF Len(Strip(Head(blocks))) > n THEN <<Strip(Head(blocks))>> ELSE <<>>)
            \o TextsOver(Tail(blocks), n)

\* C18: in a document in which two selectors match and the evaluation of
\* the earliest matching selector does not raise, _extract_reviews returns
\* texts of the blocks of that selector, in their order, and no text that
\* only a later selector matches.
C18_EarlierStrategyWins ==
    /\ call.op = "extract"
    /\ \E j, k \in 1..Len(REVIEW_SELECTORS) : j < k /\ Matches(j) /\ Matches(k)
    /\ ~Fails(FirstMatch)
    => /\ result = TextsOver(Sel(FirstMatch).blocks, MIN_REVIEW_LENGTH)
       /\ \A n \in 1..Len(result) :
             \E b \in 1..Len(Sel(FirstMatch).blocks) :
                result[n] = Strip(Sel(FirstMatch).blocks[b])
       /\ \A k \in (FirstMatch + 1)..Len(REVIEW_SELECTORS) :
             \A b \in 1..Len(Sel(k).blocks) :
                Strip(Sel(k).blocks[b]) \notin Range(result)

\* the second and the third selector match, the first does not, and the
\* texts returned are those of the second
C18_Witness ==
    /\ call.op = "extract"
    /\ ~Matches(1)
    /\ Matches(2) /\ ~Fails(2)
    /\ Matches(3)
    /\ result = <<LongText(2), Strip(PaddedText(2))>>

\* C19: for the selector it stops at, _extract_reviews returns exactly the
\* trimmed texts of the matched blocks that are at least MIN_REVIEW_LENGTH
\* long, in document order: a text of exactly MIN_REVIEW_LENGTH characters
\* is kept.
C19_KeepsMinimumLength ==
    /\ call.op = "extract"
    /\ \E k \in 1..Len(REVIEW_SELECTORS) : Matches(k)
    /\ ~Fails(FirstMatch)
    => result = TextsOver(Sel(FirstMatch).blocks, MIN_REVIEW_LENGTH - 1)

\* C20: the texts _extract_reviews returns come from one selector whose
\* evaluation completed without raising, or there are none: nothing that
\* was collected from a selector whose evaluation raised is returned.
C20_NothingFromFailedStrategy ==
    call.op = "extract" =>
        \/ result = <<>>
        \/ \E k \in 1..Len(REVIEW_SELECTORS) :
              /\ Matches(k)
              /\ ~Fails(k)
              /\ result = TextsOver(Sel(k).blocks, MIN_REVIEW_LENGTH)

\* C21: _get_review_url(u) is u without its last character when that is a
\* '/', and u otherwise, followed by '/reviews'; for u not ending in '/',
\* u and u + '/' give the same review URL u + '/reviews'.
C21_ReviewUrl ==
    call.op = "review_url" =>
        /\ Len(result) >= Len(ReviewSuffix)
        /\ SubSeq(result, Len(result) - Len(ReviewSuffix) + 1, Len(result)) = ReviewSuffix
        /\ LET stem == SubSeq(result, 1, Len(result) - Len(ReviewSuffix)) IN
              /\ EndsWithSlash(call.url) => stem \o <<"/">> = call.url
              /\ ~EndsWithSlash(call.url) =>
                    /\ stem = call.url
                    /\ get_review_url(call.url \o <<"/">>) = result

\* an identifier ending in two '/' has lost one of them
C21_Witness ==
    /\ call.op = "review_url"
    /\ call.url = <<"h", "/", "/">>
    /\ result = <<"h", "/">> \o ReviewSuffix

\* what run() hands to its caller once it has ended: every return of run()
\* is a bare return (None); an exception nothing caught leaves run()
run_outcome ==
    CASE pc \in {"done", "done_empty", "done_input_error"} -> Ret(PyNone)
      [] pc = "crashed" -> Raise("Exception")
      [] OTHER -> [exc |-> "running", val |-> PyNone]

\* C22: when the input file is missing or has no url column, the run ends
\* without a fetch, without a save and without an output file, and what
\* run() hands to its caller is an error.
C22_InputErrorSurfaced ==
    inputFile.kind # "ok" /\ Ended =>
        /\ fetched = {}
        /\ saves = <<>>
        /\ ~outFile.exists
        /\ run_outcome.exc \notin {"none", "running"}

\* C23: after clear_checkpoint there is no checkpoint file, whether there
\* was one before or not; clearing again changes nothing; load_checkpoint
\* right after a clear returns the empty list.
C23_ClearIdempotent ==
    /\ cmLast.op = "clear" =>
          /\ ckptFile = NoFile
          /\ clear_checkpoint(ckptFile) = ckptFile
          /\ load_checkpoint(ckptFile) = Ret(PyList(<<>>))
    /\ cmLast.op = "load" /\ cmLast.prev = "clear" => cmRet = Ret(PyList(<<>>))
    /\ \A file \in {NoFile, ckptFile} :
          clear_checkpoint(clear_checkpoint(file)) = clear_checkpoint(file)

\* a checkpoint was saved and then cleared
C23_Witness ==
    /\ cmLast.op = "clear"
    /\ cmLast.prev = "save"
    /\ ckptFile = NoFile

\* the entries the claim promises for these review entities: one for each
\* entity with status 'success' and a text that is not empty when trimmed
RECURSIVE PromisedEntries(_, _)
PromisedEntries(kinds, k) ==
    IF k > Len(kinds) THEN <<>>
    ELSE (IF /\ kinds[k].status = "success"
             /\ kinds[k].text \notin {"-", "null"}
             /\ JsStrip(kinds[k].text) # ""
          THEN <<[review_id |-> PyStr(EntityId(k)),
                  review_text |-> JsStrip(kinds[k].text)]>>
          ELSE <<>>)
            \o PromisedEntries(kinds, k + 1)

\* C24: extract_reviews_from_js returns one entry for each review entity of
\* the embedded state with status 'success' and a non-empty trimmed text,
\* and nothing else; for a page without a state, or with a state that cannot
\* be parsed, it returns the empty list.
C24_StructuredPayload ==
    call.op = "js" =>
        result = IF call.kind = "state" THEN PromisedEntries(call.kinds, 1) ELSE <<>>

\* how many times a value occurs in a sequence
RECURSIVE Occurrences(_, _)
Occurrences(seq, x) ==
    IF seq = <<>> THEN 0
    ELSE (IF Head(seq) = x THEN 1 ELSE 0) + Occurrences(Tail(seq), x)

\* C26: in a run that loaded a list, an identifier is crawled only if the
\* loaded list does not hold it (a later run that loads a checkpoint skips
\* what is in it); every identifier the loop has passed is in the processed
\* list, and if the loaded list did not hold it, it was crawled; every
\* crawled identifier is in the processed list exactly once, whatever ended
\* its crawl; and after each save, every identifier crawled so far is in the
\* list last saved and in the list the checkpoint file gives back.
C26_ProcessedOnceWhateverOutcome ==
    loaded.t = "list" /\ pc # "crashed" =>
        /\ \A u \in fetched :
              /\ ~InList(loaded, u)
              /\ Occurrences(processed_urls.items, PyStr(u)) = 1
        /\ lastCrawl.url # "" =>
              /\ lastCrawl.url \in fetched
              /\ processed_urls.items[Len(processed_urls.items)] = PyStr(lastCrawl.url)
        /\ \A k \in 1..i :
              /\ InList(processed_urls, urls[k])
              /\ ~InList(loaded, urls[k]) => urls[k] \in fetched
        /\ pc = "export" \/ AfterLoop =>
              \A u \in fetched :
                  /\ InList(committed, u)
                  /\ InList(load_checkpoint(ckptFile).val, u)

\* a second run loaded the identifiers the first had saved, skipped them,
\* crawled one more whose first page failed, and has made its final save:
\* the run has no record, and the checkpoint holds the failed identifier
C26_Witness ==
    /\ runs = 2
    /\ pc = "post"
    /\ loaded.t = "list"
    /\ loaded.items # <<>>
    /\ lastCrawl.stop \in ErrorStops
    /\ fetched = {lastCrawl.url}
    /\ all_reviews = <<>>
    /\ Occurrences(processed_urls.items, PyStr(lastCrawl.url)) = 1
    /\ InList(load_checkpoint(ckptFile).val, lastCrawl.url)

\* selector number k matches elements and its evaluation does not raise
Completes(k) == Matches(k) /\ ~Fails(k)

\* selector number k is evaluated: no selector before it completes
Evaluated(k) == \A j \in 1..(k - 1) : ~Completes(j)

\* the texts the evaluation of selector number k adds: of the blocks it got
\* through, the trimmed texts longer than MIN_REVIEW_LENGTH
Collected(k) ==
    IF Sel(k).raises_at = 1 THEN <<>>
    ELSE TextsOver(IF Sel(k).raises_at = 0 THEN Sel(k).blocks
                   ELSE SubSeq(Sel(k).blocks, 1, Sel(k).raises_at - 2),
                   MIN_REVIEW_LENGTH)

\* the texts of the evaluated selectors from number k on, in their order
RECURSIVE CollectedFrom(_)
CollectedFrom(k) ==
    IF k > Len(REVIEW_SELECTORS) THEN <<>>
    ELSE (IF Evaluated(k) THEN Collected(k) ELSE <<>>) \o CollectedFrom(k + 1)

\* selector number k yields a block of acceptable length
YieldsAcceptable(k) == Completes(k) /\ Collected(k) # <<>>

\* C27, as stated: _extract_reviews returns an empty list only if no
\* selector of REVIEW_SELECTORS yields a block of acceptable length for the
\* document.
C27_EmptyOnlyIfNoStrategyYields ==
    call.op = "extract" /\ result = <<>> =>
        \A k \in 1..Len(REVIEW_SELECTORS) : ~YieldsAcceptable(k)

\* C27, amended: _extract_reviews stops at the first selector that matches
\* at least one element and whose evaluation does not raise; a selector is
\* evaluated exactly when every earlier one matched nothing or raised; the
\* list returned holds what the evaluated selectors collected.  So the list
\* is empty when the selector it stops at has no block longer than
\* MIN_REVIEW_LENGTH, whatever a later selector would yield.
C27_StopsAtFirstMatchingStrategy ==
    call.op = "extract" =>
        /\ result = CollectedFrom(1)
        /\ \A k \in 1..Len(REVIEW_SELECTORS) :
              Completes(k) /\ Evaluated(k) /\ Collected(k) = <<>>
              /\ (\A j \in 1..(k - 1) : Collected(j) = <<>>)
              => result = <<>>

\* the first selector matches one block that is too short, the second
\* matches a block of acceptable length, and the list returned is empty
C27_Witness ==
    /\ call.op = "extract"
    /\ Sel(1) = [blocks |-> <<ShortText(1)>>, raises_at |-> 0]
    /\ YieldsAcceptable(2)
    /\ result = <<>>

\* C29: deduplicate_reviews applied to what deduplicate_reviews returned
\* returns the same records with the same texts.
C29_DedupIdempotent ==
    call.op = "dedup" => deduplicate_reviews(result) = result

\* C25: in the events of a crawl, every fetch comes right after a sleep whose
\* duration lies within DELAY_RANGE, and right before that sleep there is no
\* other sleep: the first fetch follows one sleep, and every later fetch
\* follows one sleep made after the fetch before.
C25_DelayBeforeEveryFetch ==
    call.op = "crawl_steps" =>
        \A n \in 1..Len(result.trace) :
            result.trace[n].e = "get" =>
                /\ n > 1
                /\ result.trace[n - 1].e = "sleep"
                /\ result.trace[n - 1].d >= DELAY_RANGE[1]
                /\ result.trace[n - 1].d <= DELAY_RANGE[2]
                /\ n > 2 => result.trace[n - 2].e = "get"

\* a crawl has fetched two pages, each of them after a sleep
C25_Witness ==
    /\ call.op = "crawl_steps"
    /\ Len(result.trace) = 4
    /\ result.trace[1].e = "sleep"
    /\ result.trace[2] = Got(1)
    /\ result.trace[3].e = "sleep"
    /\ result.trace[4] = Got(2)

\* the fetches among the events of the crawl, in their order
Gets == SelectSeq(result.trace, LAMBDA ev : ev.e = "get")

\* the pages the fetches of the crawl met
PagesMet == [p \in 1..Len(result.script) |-> PageOf(result.script[p], p)]

\* C28: whatever the fetches meet, the k-th fetch of a crawl is for page k,
\* there are at most MAX_PAGES of them, and every record has a page in
\* 1..MAX_PAGES; a crawl that has returned after MAX_PAGES pages that each
\* gave a text returns the records of all of them; and every crawl returns.
C28_BoundedOrderedCrawl ==
    /\ [](call.op = "crawl_steps" =>
            /\ Len(Gets) <= MAX_PAGES
            /\ \A k \in 1..Len(Gets) : Gets[k].page = k
            /\ \A k \in 1..Len(result.reviews) : result.reviews[k].page \in 1..MAX_PAGES
            /\ result.at = "returned" =>
                  /\ result.reviews
                        = scrape_restaurant_reviews(
                             call.url,
                             [p \in 1..MAX_PAGES |->
                                 IF p <= Len(PagesMet) THEN PagesMet[p]
                                 ELSE PageFail("error")]).reviews
                  /\ (\A p \in 1..MAX_PAGES :
                         /\ p <= Len(PagesMet)
                         /\ PagesMet[p].kind = "ok"
                         /\ extract_reviews(PagesMet[p].soup) # <<>>)
                     => result.reviews = RecordsOfPages(call.url, PagesMet, MAX_PAGES))
    /\ (call.op = "crawl_steps" ~> (call.op = "crawl_steps" /\ result.at = "returned"))

\* a crawl has returned after MAX_PAGES fetches that each gave a text
C28_Witness ==
    /\ call.op = "crawl_steps"
    /\ result.at = "returned"
    /\ result.stop = "limit"
    /\ Len(Gets) = MAX_PAGES
    /\ result.reviews # <<>>
    /\ result.reviews[Len(result.reviews)].page = MAX_PAGES

\* the checkpoint file is absent, or holds a JSON object with a list under
\* processed_urls
Readable(file) ==
    \/ ~file.exists
    \/ /\ JsonLoad(file.content).exc = "none"
       /\ JsonLoad(file.content).val.t = "dict"
       /\ DictGet(JsonLoad(file.content).val, "processed_urls", PyNone).t = "list"

\* C30: on the same input and the same readable checkpoint, with fetches that
\* meet the same, the script and scrape_all_reviews both run to the end of
\* their loops; the script has skipped the same identifiers in the same
\* order, its processed list is the same, and its saves wrote the same lists
\* at the same identifiers of the input (and after the loop); while the
\* script runs, what it has skipped and saved so far is the beginning of
\* what scrape_all_reviews skipped and saved.
C30_LegacyLoopEquivalent ==
    Readable(legacy.startFile) /\ legacy.pc \notin {"off", "start", "load"} =>
        /\ pc = "post"
        /\ legacy.pc # "crashed"
        /\ IsPrefix(legacy.skipped, observed.skipped)
        /\ IsPrefix(legacy.processed_urls.items, processed_urls.items)
        /\ IsPrefix(legacy.saves, saves)
        /\ IsPrefix(legacy.savedAt, observed.savedAt)
        /\ legacy.pc = "done" =>
              /\ legacy.skipped = observed.skipped
              /\ legacy.processed_urls = processed_urls
              /\ legacy.saves = saves
              /\ legacy.savedAt = observed.savedAt
              /\ load_checkpoint(legacy.ckptFile) = load_checkpoint(ckptFile)

\* both have ended on a checkpoint that held an identifier of the input:
\* they skipped it, crawled others, and saved in the loop and after it
C30_Witness ==
    /\ legacy.pc = "done"
    /\ pc = "post"
    /\ legacy.startFile.exists
    /\ Readable(legacy.startFile)
    /\ legacy.skipped # <<>>
    /\ legacy.skipped = observed.skipped
    /\ fetched # {}
    /\ Len(legacy.savedAt) >= 2
    /\ legacy.savedAt = observed.savedAt
    /\ legacy.saves = saves

=============================================================================
